---- MODULE Spec2Model ----
(***************************************************************************)
(* Model of package rowconv (src/unnamed/part_003): Propagate, the scan    *)
(* definition cache, the accessor resolver, the struct provider and the    *)
(* row mappers.                                                            *)
(***************************************************************************)
EXTENDS Integers, Sequences, FiniteSets, TLC

(***************************************************************************)
(* Bounds of the model.                                                    *)
(***************************************************************************)
MaxCalls == 2
MaxRaceCalls == 2
MaxBindCalls == 1
MaxRows == 2
MaxSpin == 2
MaxStack == 3

Procs == {"p1", "p2"}

NoTag == "<no db_column tag>"
None == "none"

(***************************************************************************)
(* reflect.Type: the types the callers of this model use, by name.         *)
(***************************************************************************)
Basic(k) == [kind |-> k, elem |-> "", fields |-> <<>>]
PtrTo(t) == [kind |-> "ptr", elem |-> t, fields |-> <<>>]
SliceOf(t) == [kind |-> "slice", elem |-> t, fields |-> <<>>]
StructOf(fs) == [kind |-> "struct", elem |-> "", fields |-> fs]
Fld(n, tag, t) == [name |-> n, tag |-> tag, type |-> t]

\* time.Time and time.Location of the standard library, as reflect shows them
TimeTypes ==
     ("uint64" :> Basic("uint64"))
  @@ ("int64" :> Basic("int64"))
  @@ ("zone" :> StructOf(<<Fld("name", NoTag, "string"),
                           Fld("offset", NoTag, "int"),
                           Fld("isDST", NoTag, "bool")>>))
  @@ ("*zone" :> PtrTo("zone"))
  @@ ("[]zone" :> SliceOf("zone"))
  @@ ("zoneTrans" :> StructOf(<<Fld("when", NoTag, "int64"),
                                Fld("index", NoTag, "uint8"),
                                Fld("isstd", NoTag, "bool"),
                                Fld("isutc", NoTag, "bool")>>))
  @@ ("[]zoneTrans" :> SliceOf("zoneTrans"))
  @@ ("Location" :> StructOf(<<Fld("name", NoTag, "string"),
                               Fld("zone", NoTag, "[]zone"),
                               Fld("tx", NoTag, "[]zoneTrans"),
                               Fld("extend", NoTag, "string"),
                               Fld("cacheStart", NoTag, "int64"),
                               Fld("cacheEnd", NoTag, "int64"),
                               Fld("cacheZone", NoTag, "*zone")>>))
  @@ ("*Location" :> PtrTo("Location"))
  @@ ("Time" :> StructOf(<<Fld("wall", NoTag, "uint64"),
                           Fld("ext", NoTag, "int64"),
                           Fld("loc", NoTag, "*Location")>>))
  @@ ("*Time" :> PtrTo("Time"))

\* record types with db_column tags (the refStruct of the "tagged column
\* name" test, and one whose tag has capital letters), with fields sharing
\* a name across the field tree, and with a field that is not exported
BindTypes ==
     ("tagStruct" :> StructOf(<<Fld("PK", "id", "int"),
                                Fld("CreationTimestamp", "creation_time", "*Time")>>))
  @@ ("*tagStruct" :> PtrTo("tagStruct"))
  @@ ("caseTagStruct" :> StructOf(<<Fld("Id", NoTag, "int"),
                                    Fld("Stamp", "Creation_Time", "string")>>))
  @@ ("inner" :> StructOf(<<Fld("Id", NoTag, "string"),
                            Fld("Col1", NoTag, "int"),
                            Fld("Inner", NoTag, "int")>>))
  @@ ("shadowStruct" :> StructOf(<<Fld("Id", NoTag, "int"),
                                   Fld("Inner", NoTag, "inner"),
                                   Fld("Col1", NoTag, "string")>>))
  @@ ("lowerStruct" :> StructOf(<<Fld("id", NoTag, "int"),
                                  Fld("Col1", NoTag, "string")>>))

\* record types that reach themselves: through a pointer field of its own
\* type, and through a struct field whose type points back
CycleTypes ==
     ("node" :> StructOf(<<Fld("Id", NoTag, "int"),
                           Fld("Next", NoTag, "*node")>>))
  @@ ("*node" :> PtrTo("node"))
  @@ ("parent" :> StructOf(<<Fld("Id", NoTag, "int"),
                             Fld("Col1", NoTag, "string"),
                             Fld("Child", NoTag, "child")>>))
  @@ ("*parent" :> PtrTo("parent"))
  @@ ("child" :> StructOf(<<Fld("Back", NoTag, "*parent")>>))

\* valStruct / refStruct of the tests, and a four level nesting in the
\* manner of the "deep nesting" test whose innermost struct has two leaves.
TypeTable ==
     ("int" :> Basic("int"))
  @@ ("string" :> Basic("string"))
  @@ ("uint8" :> Basic("uint8"))
  @@ ("bool" :> Basic("bool"))
  @@ ("map" :> Basic("map"))
  @@ ("chan" :> Basic("chan"))
  @@ ("func" :> Basic("func"))
  @@ ("interface" :> Basic("interface"))
  @@ ("array" :> Basic("array"))
  @@ ("unsafeptr" :> Basic("unsafeptr"))
  @@ ("*int" :> PtrTo("int"))
  @@ ("*string" :> PtrTo("string"))
  @@ ("*map" :> PtrTo("map"))
  @@ ("map[string]int" :> [kind |-> "map", elem |-> "int", fields |-> <<>>])
  @@ ("[]uint8" :> SliceOf("uint8"))
  @@ ("[]int" :> SliceOf("int"))
  @@ ("valStruct" :> StructOf(<<Fld("Id", NoTag, "int"),
                                Fld("Col1", NoTag, "string"),
                                Fld("COL2", NoTag, "*string")>>))
  @@ ("*valStruct" :> PtrTo("valStruct"))
  @@ ("level1" :> StructOf(<<Fld("Id", NoTag, "int"),
                             Fld("Code", NoTag, "*string")>>))
  @@ ("*level1" :> PtrTo("level1"))
  @@ ("level2" :> StructOf(<<Fld("Col1", NoTag, "string"),
                             Fld("With", NoTag, "*level1")>>))
  @@ ("*level2" :> PtrTo("level2"))
  @@ ("level3" :> StructOf(<<Fld("Col2", NoTag, "*string"),
                             Fld("With", NoTag, "*level2")>>))
  @@ ("*level3" :> PtrTo("level3"))
  @@ ("deepStruct" :> StructOf(<<Fld("With", NoTag, "*level3")>>))
  @@ ("*deepStruct" :> PtrTo("deepStruct"))
  @@ TimeTypes
  @@ BindTypes
  @@ CycleTypes

Kind(t) == TypeTable[t].kind
Elem(t) == TypeTable[t].elem
NumField(t) == Len(TypeTable[t].fields)
\* Go field indices start at 0
Field(t, i) == TypeTable[t].fields[i + 1]

\* strings.ToLower on the names that occur
ToLower ==
     ("Id" :> "id") @@ ("ID" :> "id") @@ ("id" :> "id")
  @@ ("Col1" :> "col1") @@ ("col1" :> "col1")
  @@ ("COL2" :> "col2") @@ ("Col2" :> "col2") @@ ("col2" :> "col2")
  @@ ("Code" :> "code") @@ ("code" :> "code")
  @@ ("With" :> "with") @@ ("x" :> "x")
  @@ ("PK" :> "pk") @@ ("pk" :> "pk")
  @@ ("CreationTimestamp" :> "creationtimestamp")
  @@ ("creation_time" :> "creation_time") @@ ("Creation_Time" :> "creation_time")
  @@ ("Stamp" :> "stamp") @@ ("Inner" :> "inner")
  @@ ("wall" :> "wall") @@ ("ext" :> "ext") @@ ("loc" :> "loc")
  @@ ("name" :> "name") @@ ("zone" :> "zone") @@ ("tx" :> "tx")
  @@ ("extend" :> "extend") @@ ("cacheStart" :> "cachestart")
  @@ ("cacheEnd" :> "cacheend") @@ ("cacheZone" :> "cachezone")
  @@ ("offset" :> "offset") @@ ("isDST" :> "isdst")
  @@ ("Next" :> "next") @@ ("Child" :> "child") @@ ("Back" :> "back")

\* a field is exported when its name starts with a capital letter
ExportedNames == {"Id", "ID", "Col1", "COL2", "Col2", "Code", "With", "PK",
                  "CreationTimestamp", "Stamp", "Inner", "Next", "Child", "Back"}
IsExported(field) == field.name \in ExportedNames

\* the types registered as smallest struct decompositions, and the types
\* implementing sql.Scanner
smallestStructDecompositions == {"Time", "Location"}
ScannerTypes == {}

isSmallestStructDecomposition(t) ==
  t \in ScannerTypes \/ t \in smallestStructDecompositions

(***************************************************************************)
(* Go slices of int: a slice is a window on a backing array of the heap.   *)
(* append writes in place while len < cap and otherwise copies into a new  *)
(* array (the gc runtime doubles small capacities: 0, 1, 2, 4, 8).         *)
(***************************************************************************)
NilSlice == [arr |-> 0, len |-> 0, cap |-> 0]

GoAppend(heap, s, x) ==
  IF s.len < s.cap
    THEN [heap |-> [heap EXCEPT ![s.arr][s.len + 1] = x],
          slice |-> [s EXCEPT !.len = s.len + 1]]
    ELSE LET newcap == IF s.cap = 0 THEN 1 ELSE 2 * s.cap
             old == IF s.len = 0 THEN <<>> ELSE SubSeq(heap[s.arr], 1, s.len)
             fresh == old \o <<x>> \o [k \in 1..(newcap - s.len - 1) |-> 0]
         IN [heap |-> Append(heap, fresh),
             slice |-> [arr |-> Len(heap) + 1, len |-> s.len + 1, cap |-> newcap]]

SliceValue(heap, s) == IF s.len = 0 THEN <<>> ELSE SubSeq(heap[s.arr], 1, s.len)

(***************************************************************************)
(* Accessor resolver.                                                      *)
(***************************************************************************)
RECURSIVE UnwrapPtr(_)
UnwrapPtr(t) == IF Kind(t) = "ptr" THEN UnwrapPtr(Elem(t)) ELSE t

ColumnAlias(field) == IF field.tag # NoTag THEN field.tag ELSE ToLower[field.name]

IsStructOrPtrToStruct(t) ==
  Kind(t) = "struct" \/ (Kind(t) = "ptr" /\ Kind(Elem(t)) = "struct")

\* a map assignment that keeps the entry a key already has
registerAccessor_keepFirst(table, columnAlias, accessor) ==
  table @@ (columnAlias :> accessor)

\* columnAliasToAccessor[columnAlias] = fieldAccessor{...}
registerAccessor(table, columnAlias, accessor) ==
  (columnAlias :> accessor) @@ table

\* The loop over the fields of struct type t from field i on; st is the
\* heap of index slices and the columnAliasToAccessor map filled so far.
RECURSIVE createFieldsAccessorsRecursively(_, _, _, _)
createFieldsAccessorsRecursively(st, folding, t, i) ==
  IF i >= NumField(t) THEN st
  ELSE LET field == Field(t, i)
           a1 == GoAppend(st.heap, folding, i)
           st1 == IF IsStructOrPtrToStruct(field.type)
                    THEN createFieldsAccessorsRecursively(
                           [st EXCEPT !.heap = a1.heap], a1.slice,
                           UnwrapPtr(field.type), 0)
                    ELSE st
           a2 == GoAppend(st1.heap, folding, i)
           acc == [fieldType |-> field.type, fieldIndex |-> a2.slice]
           st2 == [heap |-> a2.heap,
                   table |-> registerAccessor(st1.table, ColumnAlias(field), acc)]
       IN createFieldsAccessorsRecursively(st2, folding, t, i + 1)

\* the struct types the resolver is called for from the frame of struct
\* type t: those of the fields that are structs or pointers to structs
StructFieldTypes(t) ==
  {UnwrapPtr(Field(t, i).type) :
     i \in {j \in 0..(NumField(t) - 1) : IsStructOrPtrToStruct(Field(t, j).type)}}

\* the struct types of the calls below the frames of the types of
\* frontier, seen holding those found so far
RECURSIVE CalledBelow(_, _)
CalledBelow(seen, frontier) ==
  LET next == UNION {StructFieldTypes(t) : t \in frontier}
  IN IF next \subseteq seen THEN seen ELSE CalledBelow(seen \cup next, next \ seen)

\* the struct types for which the recursion of the resolver has no end:
\* below the frame of such a type there is a frame of a type that is called
\* for again below its own frame
RecursingTypes ==
  {t \in {s \in DOMAIN TypeTable : Kind(s) = "struct"} :
     \E u \in {t} \cup CalledBelow({}, {t}) : u \in CalledBelow({}, {u})}

RecursesForEver(t) == t \in RecursingTypes

\* The for/switch of the resolver leaves the loop only for a struct.
ResolverTerminates(dstType) == Kind(UnwrapPtr(dstType)) = "struct"

\* columnAliasToAccessor as the callers read it once resolution is over
createFieldsAccessors(dstType) ==
  LET st == createFieldsAccessorsRecursively(
              [heap |-> <<>>, table |-> <<>>], NilSlice, UnwrapPtr(dstType), 0)
  IN [k \in DOMAIN st.table |->
        [fieldType |-> st.table[k].fieldType,
         fieldIndex |-> SliceValue(st.heap, st.table[k].fieldIndex)]]

(***************************************************************************)
(* Shape classification.                                                   *)
(***************************************************************************)
UnsupportedKinds == {"map", "chan", "func", "interface", "unsafeptr", "array"}

\* the loop of elementType from the type `inspection` on
RECURSIVE elementTypeLoop(_)
elementTypeLoop(inspection) ==
  CASE Kind(inspection) = "slice" ->
         IF Kind(Elem(inspection)) = "uint8"
           THEN [err |-> None, type |-> inspection]
           ELSE elementTypeLoop(Elem(inspection))
    [] Kind(inspection) \in UnsupportedKinds -> [err |-> "unsupported type", type |-> ""]
    [] OTHER -> [err |-> None, type |-> inspection]

\* elementType applied to the slice type []sliceElem
elementType(sliceElem) ==
  IF Kind(sliceElem) = "uint8"
    THEN [err |-> None, type |-> "[]uint8"]
    ELSE elementTypeLoop(sliceElem)

BasicKinds == {"int", "uint8", "string", "uint64", "int64"}

RECURSIVE isSingleBasicType(_)
isSingleBasicType(dstType) ==
  CASE Kind(dstType) = "ptr" -> isSingleBasicType(Elem(dstType))
    [] Kind(dstType) \in BasicKinds -> TRUE
    [] Kind(dstType) = "slice" -> Kind(Elem(dstType)) = "uint8"
    [] Kind(dstType) = "struct" -> isSmallestStructDecomposition(dstType)
    [] OTHER -> FALSE

(***************************************************************************)
(* reflect.Value: values of the element types.                             *)
(***************************************************************************)
Nil == [k |-> "nil"]
Ref(v) == [k |-> "ref", v |-> v]
Panic == [k |-> "panic"]
Cell(r, c) == [k |-> "cell", row |-> r, col |-> c]
StructValue(fs) == [k |-> "struct", f |-> fs]

RECURSIVE Zero(_)
Zero(t) ==
  CASE Kind(t) = "struct" -> StructValue([i \in 1..NumField(t) |-> Zero(Field(t, i - 1).type)])
    [] Kind(t) \in {"ptr", "slice", "map"} -> Nil
    [] OTHER -> [k |-> "zero"]

\* Value.Addr applied n times to an addressable value: the second Addr is
\* applied to a pointer that is not addressable and panics
AddrTimes(v, n) == IF n = 0 THEN v ELSE IF n = 1 THEN Ref(v) ELSE Panic

(***************************************************************************)
(* Struct provider.                                                        *)
(***************************************************************************)
RECURSIVE PtrLevels(_)
PtrLevels(t) == IF Kind(t) = "ptr" THEN 1 + PtrLevels(Elem(t)) ELSE 0

unwrapPtrStructType(wrapped) ==
  IF Kind(UnwrapPtr(wrapped)) = "struct"
    THEN [err |-> None, actualType |-> UnwrapPtr(wrapped), levels |-> PtrLevels(wrapped)]
    ELSE [err |-> "underline type is not a struct", actualType |-> "", levels |-> 0]

RECURSIVE structProviderGetOrCreate(_, _)
RECURSIVE structProviderFields(_, _, _, _)

\* the loop over the fields that takes every struct for a record, the
\* smallest struct decompositions too
structProviderFields_allocatesLeaves(byType, actualType, i, initActions) ==
  IF i >= NumField(actualType)
    THEN [byType |-> byType, initActions |-> initActions, err |-> None]
    ELSE LET fieldType == Field(actualType, i).type
             base == UnwrapPtr(fieldType)
         IN IF Kind(base) = "struct"
              THEN LET r == structProviderGetOrCreate(byType, base)
                   IN IF r.err # None
                        THEN [byType |-> r.byType, initActions |-> initActions, err |-> r.err]
                        ELSE structProviderFields(r.byType, actualType, i + 1,
                               Append(initActions,
                                      [idx |-> i, ptrNesting |-> PtrLevels(fieldType),
                                       provider |-> r.provider]))
              ELSE structProviderFields(byType, actualType, i + 1, initActions)

\* the loop over the fields of actualType from field i on
structProviderFields(byType, actualType, i, initActions) ==
  IF i >= NumField(actualType)
    THEN [byType |-> byType, initActions |-> initActions, err |-> None]
    ELSE LET fieldType == Field(actualType, i).type
             base == UnwrapPtr(fieldType)
         IN IF Kind(base) = "struct" /\ ~isSmallestStructDecomposition(base)
              THEN LET r == structProviderGetOrCreate(byType, base)
                   IN IF r.err # None
                        THEN [byType |-> r.byType, initActions |-> initActions, err |-> r.err]
                        ELSE structProviderFields(r.byType, actualType, i + 1,
                               Append(initActions,
                                      [idx |-> i, ptrNesting |-> PtrLevels(fieldType),
                                       provider |-> r.provider]))
              ELSE structProviderFields(byType, actualType, i + 1, initActions)

structProviderGetOrCreate(byType, forType) ==
  IF forType \in DOMAIN byType
    THEN [byType |-> byType, provider |-> byType[forType], err |-> None]
    ELSE LET u == unwrapPtrStructType(forType)
         IN IF u.err # None
              THEN [byType |-> byType, provider |-> <<>>, err |-> u.err]
              ELSE LET r == structProviderFields(byType, u.actualType, 0, <<>>)
                       provider == [actualType |-> u.actualType, ptrDepth |-> u.levels,
                                    initActions |-> r.initActions]
                   IN IF r.err # None
                        THEN [byType |-> r.byType, provider |-> <<>>, err |-> r.err]
                        ELSE [byType |-> (forType :> provider) @@ r.byType,
                              provider |-> provider, err |-> None]

\* calling a provider: a fresh zero struct, the init actions in order, the
\* pointer layers of the requested type
RECURSIVE Provide(_)
RECURSIVE RunInitActions(_, _, _)

RunInitActions(holderValue, initActions, j) ==
  IF j > Len(initActions) THEN holderValue
  ELSE LET a == initActions[j]
           v == Provide(a.provider)
           w == IF v = Panic THEN Panic ELSE AddrTimes(v, a.ptrNesting)
       IN IF w = Panic THEN Panic
          ELSE RunInitActions([holderValue EXCEPT !.f[a.idx + 1] = w], initActions, j + 1)

Provide(provider) ==
  LET h == RunInitActions(Zero(provider.actualType), provider.initActions, 1)
  IN IF h = Panic THEN Panic ELSE AddrTimes(h, provider.ptrDepth)

RECURSIVE unwrapPtrStructValue(_)
unwrapPtrStructValue(wrapped) ==
  CASE wrapped.k = "ref" -> unwrapPtrStructValue(wrapped.v)
    [] wrapped.k = "struct" -> wrapped
    [] OTHER -> Panic

(***************************************************************************)
(* Holder suppliers.                                                       *)
(***************************************************************************)
\* Value.FieldByIndex from position j of the path on: Panic when the path
\* passes through a nil pointer or leaves the struct
RECURSIVE FieldByIndex(_, _, _)
FieldByIndex(v, path, j) ==
  IF j > Len(path) THEN v
  ELSE LET s == IF j > 1 /\ v.k = "ref" THEN v.v ELSE v
       IN IF s.k # "struct" \/ path[j] + 1 > Len(s.f) THEN Panic
          ELSE FieldByIndex(s.f[path[j] + 1], path, j + 1)

\* the write through the address FieldByIndex(...).Addr() of a value x
RECURSIVE SetByIndex(_, _, _, _)
SetByIndex(v, path, j, x) ==
  IF j > Len(path) THEN x
  ELSE IF v.k = "ref" THEN [v EXCEPT !.v = SetByIndex(v.v, path, j, x)]
  ELSE [v EXCEPT !.f[path[j] + 1] = SetByIndex(v.f[path[j] + 1], path, j + 1, x)]

\* the declared type of the field a path leads to
RECURSIVE TypeByIndex(_, _, _)
TypeByIndex(t, path, j) ==
  IF j > Len(path) THEN t
  ELSE TypeByIndex(Field(UnwrapPtr(t), path[j]).type, path, j + 1)

\* whether every field on the path is exported: Value.Interface panics on
\* a value obtained through a field that is not
RECURSIVE PathExported(_, _, _)
PathExported(t, path, j) ==
  IF j > Len(path) THEN TRUE
  ELSE LET field == Field(UnwrapPtr(t), path[j])
       IN IsExported(field) /\ PathExported(field.type, path, j + 1)

holderByFieldIndexPath(holderIndexPath) == [kind |-> "field", path |-> holderIndexPath]
holderSkipColumn == [kind |-> "skip", path |-> <<>>]

\* a type check that lets every scan type pass
typeCheckFails_never(ctChk, columnType, accessor) == FALSE

\* the type check of a matched column
typeCheckFails(ctChk, columnType, accessor) ==
  ctChk /\ columnType.scanType # accessor.fieldType

RECURSIVE holderSuppliersLoop(_, _, _, _, _, _)
holderSuppliersLoop(columnAliasToAccessor, columnTypes, camtChk, ctChk, i, holderSuppliers) ==
  IF i > Len(columnTypes) THEN [err |-> None, holderSuppliers |-> holderSuppliers]
  ELSE LET columnType == columnTypes[i]
           alias == ToLower[columnType.name]
       IN IF alias \in DOMAIN columnAliasToAccessor
            THEN LET accessor == columnAliasToAccessor[alias]
                 IN IF typeCheckFails(ctChk, columnType, accessor)
                      THEN [err |-> "type mismatch", holderSuppliers |-> <<>>]
                      ELSE holderSuppliersLoop(columnAliasToAccessor, columnTypes, camtChk, ctChk,
                             i + 1, Append(holderSuppliers, holderByFieldIndexPath(accessor.fieldIndex)))
            ELSE IF camtChk
                   THEN [err |-> "no mapping", holderSuppliers |-> <<>>]
                   ELSE holderSuppliersLoop(columnAliasToAccessor, columnTypes, camtChk, ctChk,
                          i + 1, Append(holderSuppliers, holderSkipColumn))

\* createHolderSuppliers without the check of strictColumnAmountCheck
createHolderSuppliers_noAmountCheck(columnAliasToAccessor, columnTypes, camtChk, ctChk) ==
  holderSuppliersLoop(columnAliasToAccessor, columnTypes, FALSE, ctChk, 1, <<>>)

\* createHolderSuppliers once the accessors are resolved and the flags read
createHolderSuppliers(columnAliasToAccessor, columnTypes, camtChk, ctChk) ==
  holderSuppliersLoop(columnAliasToAccessor, columnTypes, camtChk, ctChk, 1, <<>>)

(***************************************************************************)
(* Scan definitions.                                                       *)
(***************************************************************************)
NoScanDef == [columnTypes |-> <<>>, mapper |-> [kind |-> None]]

singleColumnMapper(forType, serial) ==
  [kind |-> "single", forType |-> forType, serial |-> serial]

multiColumnMapperOf(holderSuppliers, provider, serial) ==
  [kind |-> "multi", holderSuppliers |-> holderSuppliers, provider |-> provider,
   serial |-> serial]

ScanDefsOf(byType, elemType) == IF elemType \in DOMAIN byType THEN byType[elemType] ELSE <<>>

\* a find that misses whatever the cache holds
find_neverFinds(byType, elemType, columnTypes) == [found |-> FALSE, scanDef |-> NoScanDef]

\* scanDefinitionsManager.find: the first definition of the type whose
\* column types are equal in number and, position by position, in value
find(byType, elemType, columnTypes) ==
  LET scanDefs == ScanDefsOf(byType, elemType)
      hits == {i \in 1..Len(scanDefs) :
                 /\ Len(scanDefs[i].columnTypes) = Len(columnTypes)
                 /\ \A j \in 1..Len(columnTypes) :
                      scanDefs[i].columnTypes[j] = columnTypes[j]}
  IN IF hits = {}
       THEN [found |-> FALSE, scanDef |-> NoScanDef]
       ELSE [found |-> TRUE,
             scanDef |-> scanDefs[CHOOSE i \in hits : \A k \in hits : i <= k]]

\* getOrCreateSync without the second find
recheck_skipped(byType, elemType, columnTypes) == [found |-> FALSE, scanDef |-> NoScanDef]

\* the second find of getOrCreateSync, under the exclusive lock
recheck(byType, elemType, columnTypes) == find(byType, elemType, columnTypes)

\* a create that puts the new definition in the place of the list
AppendScanDef_replacing(byType, elemType, scanDef) ==
  (elemType :> <<scanDef>>) @@ byType

\* the append of scanDefinitionsManager.create
AppendScanDef(byType, elemType, scanDef) ==
  (elemType :> Append(ScanDefsOf(byType, elemType), scanDef)) @@ byType

(***************************************************************************)
(* Inputs: destinations, column types, row streams.                        *)
(***************************************************************************)
\* dst as reflect.TypeOf sees it: an untyped nil, a value that is no
\* pointer, a pointer to something that is no slice, a pointer to a slice
NilDst == [kind |-> "nil", elemKind |-> "", sliceElem |-> ""]
ValueDst == [kind |-> "slice", elemKind |-> "", sliceElem |-> "int"]
PtrToIntDst == [kind |-> "ptr", elemKind |-> "int", sliceElem |-> ""]
PtrToSliceOf(t) == [kind |-> "ptr", elemKind |-> "slice", sliceElem |-> t]

\* sql.ColumnType: the name, the scan type and the other attributes the
\* driver reports (database type name, length, nullability)
Col(n, st, db) == [name |-> n, scanType |-> st, dbType |-> db]

SigId == <<Col("id", "int", "NUMERIC")>>
SigIdX == <<Col("ID", "int", "NUMERIC"), Col("x", "string", "VARCHAR")>>
SigDeep == <<Col("col2", "string", "VARCHAR"), Col("id", "int", "NUMERIC"),
             Col("code", "*string", "VARCHAR")>>

SliceElems == {"int", "*string", "uint8", "[]int", "bool", "*map",
               "valStruct", "*valStruct", "*deepStruct"} \cup UnsupportedKinds
Dsts == {NilDst, ValueDst, PtrToIntDst} \cup {PtrToSliceOf(t) : t \in SliceElems}
Sigs == {SigId, SigIdX, SigDeep}

\* the queries of the record tests: the tagged columns, a column named as
\* a tagged field, the three columns in two orders, and a column id that
\* the driver reports with another database type
SigTag == <<Col("id", "int", "NUMERIC"), Col("creation_time", "Time", "TIMESTAMPTZ")>>
SigPk == <<Col("id", "int", "NUMERIC"), Col("pk", "int", "NUMERIC")>>
SigCols == <<Col("id", "int", "NUMERIC"), Col("col1", "string", "VARCHAR"),
             Col("col2", "string", "VARCHAR")>>
SigColsReordered == <<Col("col2", "string", "VARCHAR"), Col("id", "int", "NUMERIC"),
                      Col("col1", "string", "VARCHAR")>>
SigIdInt8 == <<Col("id", "int", "BIGINT")>>
SigCaseTag == <<Col("id", "int", "NUMERIC"), Col("Creation_Time", "string", "VARCHAR")>>

BindDsts == {PtrToSliceOf(t) : t \in {"valStruct", "*valStruct", "*tagStruct", "caseTagStruct",
                                      "shadowStruct", "lowerStruct", "bool"}}
BindSigs == {SigId, SigIdX, SigTag, SigCaseTag, SigPk, SigCols, SigColsReordered}

RepeatDsts == {PtrToSliceOf(t) : t \in {"valStruct", "int", "bool"}}
RepeatSigs == {SigId, SigIdInt8}

\* slices that hold elements before the call: an element the caller put
\* there, and the slices of none, one and two of them
Present(n) == [k |-> "present", n |-> n]
PresentElements == {<<>>, <<Present(1)>>, <<Present(1), Present(2)>>}
AppendDsts == {NilDst, PtrToIntDst}
                \cup {PtrToSliceOf(t) : t \in {"int", "*string", "valStruct", "*valStruct",
                                               "bool", "map"}}
AppendSigs == {SigId, SigIdX}

\* slices of the record types that reach themselves, and of others
CycleDsts == {PtrToSliceOf(t) : t \in {"node", "*node", "parent", "valStruct", "int", "bool"}}
CycleSigs == {SigId, SigIdX}

\* package main: the record tests' struct by value and by pointer, a
\* scalar, a map, whose value type elementType descends into, and a kind
\* the resolver has no case for
MainDsts == {NilDst, PtrToIntDst}
              \cup {PtrToSliceOf(t) : t \in {"valStruct", "*valStruct", "int",
                                             "map[string]int", "bool", "chan"}}
MainSigs == {SigId, SigIdX, SigCols, SigColsReordered}
MainRaceDsts == {PtrToSliceOf("valStruct"), PtrToSliceOf("int"), PtrToSliceOf("bool")}
MainRaceSigs == {SigId, SigIdX}

RaceDsts == {PtrToSliceOf("valStruct"), PtrToSliceOf("*valStruct"), PtrToSliceOf("bool")}
RaceSigs == {SigId, SigIdX}

(***************************************************************************)
(* State.                                                                  *)
(***************************************************************************)
VARIABLES
  columnTypeCheck,        \* atomic.Value of StrictColumnTypeCheck
  columnAmountCheck,      \* atomic.Value of StrictColumnAmountCheck
  scanDefsByType,         \* scanDefinitionsMgr.byType
  sdmWriter,              \* holder of scanDefinitionsMgr's exclusive lock
  providersByType,        \* structProviderMgr.byType
  serial,                 \* number of mappers created so far
  calls,                  \* number of Propagate calls begun
  pc,                     \* where each caller is in Propagate
  dst,                    \* the caller's dst argument
  dstVal,                 \* the elements of the caller's slice
  rows,                   \* the caller's *sql.Rows
  holderElementType,      \* local of Propagate
  found,                  \* which lookup of getOrCreateSync produced scanDef
  scanDef,                \* local of Propagate
  err,                    \* the error Propagate returns
  columnAliasToAccessor,  \* local of createHolderSuppliers
  camtChk,                \* local of createHolderSuppliers
  ctChk,                  \* local of createHolderSuppliers
  spin,                   \* iterations of the resolver's loop that matched no case
  folding,                \* argument of the innermost resolver call on the stack
  instances,              \* the reflect.New allocations each appended element is made of
  holderElementTypes,     \* package main (src/propagate.go): mapper by element type
  elementScanDefinitions, \* package main (src/unnamed/part_004): scan definitions by type
  structProviders,        \* package main: struct provider by type
  holderElementTypesMtx   \* package main: holder of the exclusive lock of the cache

flagVars == <<columnTypeCheck, columnAmountCheck>>
cacheVars == <<scanDefsByType, providersByType, serial>>
compileVars == <<columnAliasToAccessor, camtChk, ctChk, spin, folding>>
argVars == <<dst, rows, dstVal, instances>>
mainVars == <<holderElementTypes, elementScanDefinitions, structProviders, holderElementTypesMtx>>
vars == <<columnTypeCheck, columnAmountCheck, scanDefsByType, sdmWriter, providersByType,
          serial, calls, pc, dst, dstVal, rows, holderElementType, found, scanDef, err,
          columnAliasToAccessor, camtChk, ctChk, spin, folding, instances,
          holderElementTypes, elementScanDefinitions, structProviders,
          holderElementTypesMtx>>

NoRows == [columnTypes |-> <<>>, pos |-> 0, closed |-> FALSE]

Init ==
  /\ columnTypeCheck = FALSE
  /\ columnAmountCheck = FALSE
  /\ scanDefsByType = <<>>
  /\ sdmWriter = None
  /\ providersByType = <<>>
  /\ serial = 0
  /\ calls = 0
  /\ pc = [p \in Procs |-> "idle"]
  /\ dst = [p \in Procs |-> NilDst]
  /\ dstVal = [p \in Procs |-> <<>>]
  /\ rows = [p \in Procs |-> NoRows]
  /\ holderElementType = [p \in Procs |-> ""]
  /\ found = [p \in Procs |-> None]
  /\ scanDef = [p \in Procs |-> NoScanDef]
  /\ err = [p \in Procs |-> None]
  /\ columnAliasToAccessor = [p \in Procs |-> <<>>]
  /\ camtChk = [p \in Procs |-> FALSE]
  /\ ctChk = [p \in Procs |-> FALSE]
  /\ spin = [p \in Procs |-> 0]
  /\ folding = [p \in Procs |-> <<>>]
  /\ instances = [p \in Procs |-> <<>>]
  /\ holderElementTypes = <<>>
  /\ elementScanDefinitions = <<>>
  /\ structProviders = <<>>
  /\ holderElementTypesMtx = None

(***************************************************************************)
(* Configuration.                                                          *)
(***************************************************************************)
StrictColumnTypeCheck(strict) ==
  /\ columnTypeCheck' = strict
  /\ UNCHANGED <<columnAmountCheck, scanDefsByType, sdmWriter, providersByType, serial,
                 calls, pc, dst, dstVal, rows, holderElementType, found, scanDef, err,
                 columnAliasToAccessor, camtChk, ctChk, spin, folding, instances, mainVars>>

StrictColumnAmountCheck(strict) ==
  /\ columnAmountCheck' = strict
  /\ UNCHANGED <<columnTypeCheck, scanDefsByType, sdmWriter, providersByType, serial,
                 calls, pc, dst, dstVal, rows, holderElementType, found, scanDef, err,
                 columnAliasToAccessor, camtChk, ctChk, spin, folding, instances, mainVars>>

(***************************************************************************)
(* Propagate.                                                              *)
(***************************************************************************)
\* a caller enters Propagate(d, rows) with a stream of rows of the given
\* column types, open or closed already, and an empty slice
Call(p, d, columnTypes, closed, limit) ==
  /\ pc[p] = "idle"
  /\ calls < limit
  /\ calls' = calls + 1
  /\ pc' = [pc EXCEPT ![p] = "columnTypes"]
  /\ dst' = [dst EXCEPT ![p] = d]
  /\ dstVal' = [dstVal EXCEPT ![p] = <<>>]
  /\ instances' = [instances EXCEPT ![p] = <<>>]
  /\ rows' = [rows EXCEPT ![p] = [columnTypes |-> columnTypes, pos |-> 0,
                                  closed |-> closed]]
  /\ UNCHANGED <<flagVars, mainVars, cacheVars, sdmWriter, holderElementType, found, scanDef, err,
                 compileVars>>

\* a caller enters Propagate(d, rows) with a slice that holds the elements
\* `present`, which the caller allocated
CallOnto(p, d, columnTypes, closed, present, limit) ==
  /\ pc[p] = "idle"
  /\ calls < limit
  /\ calls' = calls + 1
  /\ pc' = [pc EXCEPT ![p] = "columnTypes"]
  /\ dst' = [dst EXCEPT ![p] = d]
  /\ dstVal' = [dstVal EXCEPT ![p] = present]
  /\ instances' = [instances EXCEPT ![p] = [i \in 1..Len(present) |-> {}]]
  /\ rows' = [rows EXCEPT ![p] = [columnTypes |-> columnTypes, pos |-> 0,
                                  closed |-> closed]]
  /\ UNCHANGED <<flagVars, mainVars, cacheVars, sdmWriter, holderElementType, found, scanDef, err,
                 compileVars>>

ReturnWith(p, e) ==
  /\ pc' = [pc EXCEPT ![p] = "returned"]
  /\ err' = [err EXCEPT ![p] = e]

\* rows.ColumnTypes(), which fails on closed rows, and the checks of the
\* shape of dst; reflect.TypeOf of an untyped nil is nil and its Kind() panics
Begin(p) ==
  /\ pc[p] = "columnTypes"
  /\ IF rows[p].closed
       THEN ReturnWith(p, "column types") /\ UNCHANGED holderElementType
     ELSE IF dst[p].kind = "nil"
       THEN pc' = [pc EXCEPT ![p] = "panicked"] /\ UNCHANGED <<err, holderElementType>>
     ELSE IF dst[p].kind # "ptr" \/ dst[p].elemKind # "slice"
       THEN ReturnWith(p, "pointer to the slice is expected") /\ UNCHANGED holderElementType
     ELSE LET e == elementType(dst[p].sliceElem)
          IN IF e.err # None
               THEN ReturnWith(p, e.err) /\ UNCHANGED holderElementType
               ELSE /\ pc' = [pc EXCEPT ![p] = "getOrCreateSync"]
                    /\ holderElementType' = [holderElementType EXCEPT ![p] = e.type]
                    /\ UNCHANGED err
  /\ UNCHANGED <<flagVars, mainVars, cacheVars, sdmWriter, calls, argVars, found, scanDef, compileVars>>

\* getOrCreateSync: RLock, find, RUnlock
FindShared(p) ==
  /\ pc[p] = "getOrCreateSync"
  /\ sdmWriter = None
  /\ LET r == find(scanDefsByType, holderElementType[p], rows[p].columnTypes)
     IN IF r.found
          THEN /\ scanDef' = [scanDef EXCEPT ![p] = r.scanDef]
               /\ found' = [found EXCEPT ![p] = "shared"]
               /\ pc' = [pc EXCEPT ![p] = "mapper"]
          ELSE /\ pc' = [pc EXCEPT ![p] = "Lock"]
               /\ UNCHANGED <<scanDef, found>>
  /\ UNCHANGED <<flagVars, mainVars, cacheVars, sdmWriter, calls, argVars, holderElementType, err,
                 compileVars>>

\* getOrCreateSync: sdm.Lock()
Lock(p) ==
  /\ pc[p] = "Lock"
  /\ sdmWriter = None
  /\ sdmWriter' = p
  /\ pc' = [pc EXCEPT ![p] = "locked"]
  /\ UNCHANGED <<flagVars, mainVars, cacheVars, calls, argVars, holderElementType, found, scanDef, err,
                 compileVars>>

\* a resolver that returns an error when the type of a field is a type
\* it inspects already further up the stack
descend_detectingCycle(root, path) ==
  LET inspectionType == UnwrapPtr(TypeByIndex(root, path, 1))
      fields == {j \in 0..(NumField(inspectionType) - 1) :
                   /\ IsStructOrPtrToStruct(Field(inspectionType, j).type)
                   /\ RecursesForEver(UnwrapPtr(Field(inspectionType, j).type))}
      i == CHOOSE j \in fields : \A k \in fields : j <= k
      above == {UnwrapPtr(TypeByIndex(root, SubSeq(path, 1, n), 1)) : n \in 0..Len(path)}
  IN IF UnwrapPtr(Field(inspectionType, i).type) \in above
       THEN [err |-> "not supported type", folding |-> path]
       ELSE [err |-> None, folding |-> Append(path, i)]

\* the next call of createFieldsAccessorsRecursively that does not return,
\* made from the frame whose folding is path: the loop over the fields
\* comes to the first field whose type recurses for ever and calls itself
\* with append(folding, i)
descend(root, path) ==
  LET inspectionType == UnwrapPtr(TypeByIndex(root, path, 1))
      fields == {j \in 0..(NumField(inspectionType) - 1) :
                   /\ IsStructOrPtrToStruct(Field(inspectionType, j).type)
                   /\ RecursesForEver(UnwrapPtr(Field(inspectionType, j).type))}
      i == CHOOSE j \in fields : \A k \in fields : j <= k
  IN [err |-> None, folding |-> Append(path, i)]

\* getOrCreateSync under the exclusive lock: the second find and, on a
\* miss, create up to the resolution of the accessors: a single basic type
\* gets its mapper at once; another type enters createFieldsAccessors, whose
\* loop is left only for a struct
RecheckCreate(p) ==
  /\ pc[p] = "locked"
  /\ LET r == recheck(scanDefsByType, holderElementType[p], rows[p].columnTypes)
         t == holderElementType[p]
     IN IF r.found
          THEN /\ scanDef' = [scanDef EXCEPT ![p] = r.scanDef]
               /\ found' = [found EXCEPT ![p] = "recheck"]
               /\ sdmWriter' = None
               /\ pc' = [pc EXCEPT ![p] = "mapper"]
               /\ UNCHANGED <<cacheVars, columnAliasToAccessor>>
        ELSE IF isSingleBasicType(t)
          THEN LET sd == [columnTypes |-> rows[p].columnTypes,
                          mapper |-> singleColumnMapper(t, serial + 1)]
               IN /\ scanDefsByType' = AppendScanDef(scanDefsByType, t, sd)
                  /\ serial' = serial + 1
                  /\ scanDef' = [scanDef EXCEPT ![p] = sd]
                  /\ found' = [found EXCEPT ![p] = "created"]
                  /\ sdmWriter' = None
                  /\ pc' = [pc EXCEPT ![p] = "mapper"]
                  /\ UNCHANGED <<providersByType, columnAliasToAccessor>>
        ELSE IF ~ResolverTerminates(t)
          THEN /\ pc' = [pc EXCEPT ![p] = "resolverLoop"]
               /\ UNCHANGED <<cacheVars, sdmWriter, scanDef, found, columnAliasToAccessor>>
        ELSE IF RecursesForEver(UnwrapPtr(t))
          THEN /\ pc' = [pc EXCEPT ![p] = "resolverRecursion"]
               /\ UNCHANGED <<cacheVars, sdmWriter, scanDef, found, columnAliasToAccessor>>
        ELSE /\ columnAliasToAccessor' =
                  [columnAliasToAccessor EXCEPT ![p] = createFieldsAccessors(t)]
             /\ pc' = [pc EXCEPT ![p] = "strictColumnAmountCheck"]
             /\ UNCHANGED <<cacheVars, sdmWriter, scanDef, found>>
  /\ UNCHANGED <<flagVars, mainVars, calls, argVars, holderElementType, err, camtChk, ctChk, spin,
                 folding>>

\* one more iteration of the resolver's for loop on a kind that is neither
\* Ptr nor Struct: no case matches and the loop starts over
ResolverLoop(p) ==
  /\ pc[p] = "resolverLoop"
  /\ spin[p] < MaxSpin
  /\ spin' = [spin EXCEPT ![p] = spin[p] + 1]
  /\ UNCHANGED <<flagVars, mainVars, cacheVars, sdmWriter, calls, pc, argVars, holderElementType,
                 found, scanDef, err, columnAliasToAccessor, camtChk, ctChk, folding>>

\* one more call of createFieldsAccessorsRecursively on the stack of a
\* resolution that has no end
ResolverRecurse(p) ==
  /\ pc[p] = "resolverRecursion"
  /\ Len(folding[p]) < MaxStack
  /\ LET r == descend(holderElementType[p], folding[p])
     IN IF r.err # None
          THEN /\ ReturnWith(p, r.err)
               /\ sdmWriter' = None
               /\ folding' = [folding EXCEPT ![p] = <<>>]
          ELSE /\ folding' = [folding EXCEPT ![p] = r.folding]
               /\ UNCHANGED <<pc, err, sdmWriter>>
  /\ UNCHANGED <<flagVars, mainVars, cacheVars, calls, argVars, holderElementType, found, scanDef,
                 columnAliasToAccessor, camtChk, ctChk, spin>>

\* the stack of the goroutine has reached its limit: the run-time ends the
\* program with the fatal error "stack overflow", which no caller outlives
StackOverflow(p) ==
  /\ pc[p] = "resolverRecursion"
  /\ Len(folding[p]) = MaxStack
  /\ pc' = [q \in Procs |-> "crashed"]
  /\ UNCHANGED <<flagVars, mainVars, cacheVars, sdmWriter, calls, argVars, holderElementType,
                 found, scanDef, err, compileVars>>

\* camtChk := strictColumnAmountCheck()
LoadAmountCheck(p) ==
  /\ pc[p] = "strictColumnAmountCheck"
  /\ camtChk' = [camtChk EXCEPT ![p] = columnAmountCheck]
  /\ pc' = [pc EXCEPT ![p] = "strictColumnTypeCheck"]
  /\ UNCHANGED <<flagVars, mainVars, cacheVars, sdmWriter, calls, argVars, holderElementType, found,
                 scanDef, err, columnAliasToAccessor, ctChk, spin, folding>>

\* ctChk := strictColumnTypeCheck()
LoadTypeCheck(p) ==
  /\ pc[p] = "strictColumnTypeCheck"
  /\ ctChk' = [ctChk EXCEPT ![p] = columnTypeCheck]
  /\ pc' = [pc EXCEPT ![p] = "holderSuppliers"]
  /\ UNCHANGED <<flagVars, mainVars, cacheVars, sdmWriter, calls, argVars, holderElementType, found,
                 scanDef, err, columnAliasToAccessor, camtChk, spin, folding>>

\* a create that appends a definition before it looks at the error
create_cachingFailure(byType, elemType, columnTypes, suppliers, prov, nextSerial) ==
  LET sd == [columnTypes |-> columnTypes,
             mapper |-> multiColumnMapperOf(suppliers.holderSuppliers, prov.provider,
                                            nextSerial)]
  IN IF suppliers.err # None
       THEN [err |-> suppliers.err, scanDef |-> NoScanDef,
             byType |-> AppendScanDef(byType, elemType, sd)]
     ELSE IF prov.err # None
       THEN [err |-> prov.err, scanDef |-> NoScanDef,
             byType |-> AppendScanDef(byType, elemType, sd)]
     ELSE [err |-> None, scanDef |-> sd, byType |-> AppendScanDef(byType, elemType, sd)]

\* what create does with the outcome of createRowsMapper for a record type
create(byType, elemType, columnTypes, suppliers, prov, nextSerial) ==
  IF suppliers.err # None THEN [err |-> suppliers.err, scanDef |-> NoScanDef, byType |-> byType]
  ELSE IF prov.err # None THEN [err |-> prov.err, scanDef |-> NoScanDef, byType |-> byType]
  ELSE LET sd == [columnTypes |-> columnTypes,
                  mapper |-> multiColumnMapperOf(suppliers.holderSuppliers, prov.provider,
                                                 nextSerial)]
       IN [err |-> None, scanDef |-> sd, byType |-> AppendScanDef(byType, elemType, sd)]

\* the loop of createHolderSuppliers, the provider, the append of create
\* and the Unlock of getOrCreateSync
CreateScanDef(p) ==
  /\ pc[p] = "holderSuppliers"
  /\ LET t == holderElementType[p]
         suppliers == createHolderSuppliers(columnAliasToAccessor[p], rows[p].columnTypes,
                                            camtChk[p], ctChk[p])
         prov == IF suppliers.err # None
                   THEN [byType |-> providersByType, provider |-> <<>>, err |-> None]
                   ELSE structProviderGetOrCreate(providersByType, t)
         c == create(scanDefsByType, t, rows[p].columnTypes, suppliers, prov, serial + 1)
     IN /\ providersByType' = prov.byType
        /\ scanDefsByType' = c.byType
        /\ sdmWriter' = None
        /\ IF c.err # None
             THEN /\ ReturnWith(p, c.err)
                  /\ UNCHANGED <<serial, scanDef, found>>
             ELSE /\ serial' = serial + 1
                  /\ scanDef' = [scanDef EXCEPT ![p] = c.scanDef]
                  /\ found' = [found EXCEPT ![p] = "created"]
                  /\ pc' = [pc EXCEPT ![p] = "mapper"]
                  /\ UNCHANGED err
  /\ UNCHANGED <<flagVars, mainVars, calls, argVars, holderElementType, compileVars>>

(***************************************************************************)
(* Row mappers.                                                            *)
(***************************************************************************)
\* what rows.Scan stores for a cell into a destination of the given type:
\* NULL becomes a nil pointer, a value is stored behind a pointer kind
ScanValue(destType, null, r, name) ==
  IF null THEN Nil
  ELSE IF Kind(destType) = "ptr" THEN Ref(Cell(r, name)) ELSE Cell(r, name)

AcceptsNull(destType) == Kind(destType) \in {"ptr", "slice"}

\* the writes of one rows.Scan through the addresses of the suppliers,
\* column by column from column i on
RECURSIVE ScanFields(_, _, _, _, _, _, _)
ScanFields(holderElement, actualType, holderSuppliers, columnTypes, i, null, r) ==
  IF i > Len(holderSuppliers) THEN holderElement
  ELSE LET s == holderSuppliers[i]
           next == IF s.kind = "skip" THEN holderElement
                   ELSE SetByIndex(holderElement, s.path, 1,
                                   ScanValue(TypeByIndex(actualType, s.path, 1), null, r,
                                             columnTypes[i].name))
       IN ScanFields(next, actualType, holderSuppliers, columnTypes, i + 1, null, r)

\* the number of reflect.New calls one call of a provider makes: its own
\* and those of the providers its init actions call
RECURSIVE InstanceCount(_)
RECURSIVE InitInstances(_, _)
InitInstances(initActions, j) ==
  IF j > Len(initActions) THEN 0
  ELSE InstanceCount(initActions[j].provider) + InitInstances(initActions, j + 1)

InstanceCount(provider) == 1 + InitInstances(provider.initActions, 1)

\* the allocations the elements of the callers' slices are made of
InUse == UNION {UNION {instances[q][i] : i \in 1..Len(instances[q])} : q \in Procs}

\* an allocator that hands out the same memory again
NewInstances_reusing(inUse, n) == 1..n

\* reflect.New called n times: n allocations that are not in use
RECURSIVE NewInstances(_, _)
NewInstances(inUse, n) ==
  IF n = 0 THEN {}
  ELSE LET a == CHOOSE x \in 1..(Cardinality(inUse) + 1) :
                  x \notin inUse /\ \A y \in 1..(x - 1) : y \in inUse
       IN {a} \cup NewInstances(inUse \cup {a}, n - 1)

\* an inject that sets the slice to the one new element
Inject_overwriting(p, valueType, value, n) ==
  IF valueType # dst[p].sliceElem
    THEN /\ pc' = [pc EXCEPT ![p] = "panicked"]
         /\ UNCHANGED <<dstVal, instances>>
    ELSE /\ dstVal' = [dstVal EXCEPT ![p] = <<value>>]
         /\ instances' = [instances EXCEPT ![p] = <<NewInstances(InUse, n)>>]
         /\ UNCHANGED pc

\* inject: reflect.Append panics unless the value has the slice's element
\* type; the value was made of n allocations
Inject(p, valueType, value, n) ==
  IF valueType # dst[p].sliceElem
    THEN /\ pc' = [pc EXCEPT ![p] = "panicked"]
         /\ UNCHANGED <<dstVal, instances>>
    ELSE /\ dstVal' = [dstVal EXCEPT ![p] = Append(dstVal[p], value)]
         /\ instances' = [instances EXCEPT ![p] = Append(instances[p], NewInstances(InUse, n))]
         /\ UNCHANGED pc

Advance(p) == rows' = [rows EXCEPT ![p].pos = rows[p].pos + 1]

\* singleColumnMapper: one iteration of the loop on a row
SingleNextRow(p, outcome) ==
  LET m == scanDef[p].mapper
      r == rows[p].pos + 1
      stores == /\ Len(rows[p].columnTypes) = 1
                /\ outcome = "null" => AcceptsNull(m.forType)
  IN /\ outcome = "fail" \/ stores
     /\ Advance(p)
     /\ IF outcome = "fail"
          THEN ReturnWith(p, "scan") /\ UNCHANGED <<dstVal, instances>>
          ELSE /\ Inject(p, m.forType,
                         ScanValue(m.forType, outcome = "null", r, rows[p].columnTypes[1].name),
                         1)
               /\ UNCHANGED err

\* an iteration of multiColumnMapper that injects the element before it
\* looks at the error of rows.Scan
MultiNextRow_injectsFailedRow(p, outcome) ==
  LET m == scanDef[p].mapper
      r == rows[p].pos + 1
      holderElement == Provide(m.provider)
      underlyingValue == unwrapPtrStructValue(holderElement)
      fieldsOf == {i \in 1..Len(m.holderSuppliers) : m.holderSuppliers[i].kind = "field"}
      addressable == \A i \in fieldsOf :
                       /\ FieldByIndex(underlyingValue, m.holderSuppliers[i].path, 1) # Panic
                       /\ PathExported(m.provider.actualType, m.holderSuppliers[i].path, 1)
      stores == outcome = "null" =>
                  \A i \in fieldsOf :
                    AcceptsNull(TypeByIndex(m.provider.actualType, m.holderSuppliers[i].path, 1))
  IN /\ Advance(p)
     /\ IF holderElement = Panic \/ underlyingValue = Panic \/ ~addressable
          THEN /\ pc' = [pc EXCEPT ![p] = "panicked"]
               /\ UNCHANGED <<dstVal, instances, err>>
          ELSE /\ outcome = "fail" \/ stores
               /\ IF outcome = "fail"
                    THEN /\ ReturnWith(p, "scan")
                         /\ dstVal' = [dstVal EXCEPT ![p] = Append(dstVal[p], holderElement)]
                         /\ instances' = [instances EXCEPT ![p] =
                                            Append(instances[p],
                                                   NewInstances(InUse, InstanceCount(m.provider)))]
                    ELSE /\ Inject(p, holderElementType[p],
                                   ScanFields(holderElement, m.provider.actualType,
                                              m.holderSuppliers, rows[p].columnTypes, 1,
                                              outcome = "null", r),
                                   InstanceCount(m.provider))
                         /\ UNCHANGED err

\* multiColumnMapper: one iteration of the loop on a row
MultiNextRow(p, outcome) ==
  LET m == scanDef[p].mapper
      r == rows[p].pos + 1
      holderElement == Provide(m.provider)
      underlyingValue == unwrapPtrStructValue(holderElement)
      fieldsOf == {i \in 1..Len(m.holderSuppliers) : m.holderSuppliers[i].kind = "field"}
      addressable == \A i \in fieldsOf :
                       /\ FieldByIndex(underlyingValue, m.holderSuppliers[i].path, 1) # Panic
                       /\ PathExported(m.provider.actualType, m.holderSuppliers[i].path, 1)
      stores == outcome = "null" =>
                  \A i \in fieldsOf :
                    AcceptsNull(TypeByIndex(m.provider.actualType, m.holderSuppliers[i].path, 1))
  IN /\ Advance(p)
     /\ IF holderElement = Panic \/ underlyingValue = Panic \/ ~addressable
          THEN /\ pc' = [pc EXCEPT ![p] = "panicked"]
               /\ UNCHANGED <<dstVal, instances, err>>
          ELSE /\ outcome = "fail" \/ stores
               /\ IF outcome = "fail"
                    THEN ReturnWith(p, "scan") /\ UNCHANGED <<dstVal, instances>>
                    ELSE /\ Inject(p, holderElementType[p],
                                   ScanFields(holderElement, m.provider.actualType,
                                              m.holderSuppliers, rows[p].columnTypes, 1,
                                              outcome = "null", r),
                                   InstanceCount(m.provider))
                         /\ UNCHANGED err

\* rows.Next() returned true (the stream has one more row): the row is
\* scanned and appended
NextRow(p) ==
  /\ pc[p] = "mapper"
  /\ rows[p].pos < MaxRows
  /\ \E outcome \in {"value", "null", "fail"} :
       IF scanDef[p].mapper.kind = "single"
         THEN SingleNextRow(p, outcome)
         ELSE MultiNextRow(p, outcome)
  /\ UNCHANGED <<flagVars, mainVars, cacheVars, sdmWriter, calls, dst, holderElementType, found,
                 scanDef, compileVars>>

\* rows.Next() returned false, at the end of the rows or on an error of the
\* stream (database/sql closes the rows then): rows.Err() is returned
EndOfRows(p) ==
  /\ pc[p] = "mapper"
  /\ \E outcome \in {"eof", "error"} :
       ReturnWith(p, IF outcome = "eof" THEN None ELSE "rows")
  /\ rows' = [rows EXCEPT ![p].closed = TRUE]
  /\ UNCHANGED <<flagVars, mainVars, cacheVars, sdmWriter, calls, dst, dstVal, instances,
                 holderElementType, found, scanDef, compileVars>>

\* Propagate has returned to its caller; the caller is free for a next call
Return(p) ==
  /\ pc[p] = "returned"
  /\ pc' = [pc EXCEPT ![p] = "idle"]
  /\ dst' = [dst EXCEPT ![p] = NilDst]
  /\ dstVal' = [dstVal EXCEPT ![p] = <<>>]
  /\ instances' = [instances EXCEPT ![p] = <<>>]
  /\ rows' = [rows EXCEPT ![p] = NoRows]
  /\ holderElementType' = [holderElementType EXCEPT ![p] = ""]
  /\ found' = [found EXCEPT ![p] = None]
  /\ scanDef' = [scanDef EXCEPT ![p] = NoScanDef]
  /\ err' = [err EXCEPT ![p] = None]
  /\ columnAliasToAccessor' = [columnAliasToAccessor EXCEPT ![p] = <<>>]
  /\ camtChk' = [camtChk EXCEPT ![p] = FALSE]
  /\ ctChk' = [ctChk EXCEPT ![p] = FALSE]
  /\ UNCHANGED <<flagVars, mainVars, cacheVars, sdmWriter, calls, spin, folding>>

(***************************************************************************)
(* Package main: src/propagate.go, whose cache holds one mapper for an     *)
(* element type, and src/unnamed/part_004, whose cache holds the scan      *)
(* definitions of an element type.                                         *)
(***************************************************************************)
\* the loop of package main's elementType, which has a case for maps
RECURSIVE mainElementTypeLoop(_)
mainElementTypeLoop(inspection) ==
  CASE Kind(inspection) = "map" -> mainElementTypeLoop(Elem(inspection))
    [] Kind(inspection) = "slice" ->
         IF Kind(Elem(inspection)) = "uint8"
           THEN [err |-> None, type |-> inspection]
           ELSE mainElementTypeLoop(Elem(inspection))
    [] Kind(inspection) \in UnsupportedKinds \ {"map"} ->
         [err |-> "unsupported type", type |-> ""]
    [] OTHER -> [err |-> None, type |-> inspection]

mainElementType(sliceElem) ==
  IF Kind(sliceElem) = "uint8"
    THEN [err |-> None, type |-> "[]uint8"]
    ELSE mainElementTypeLoop(sliceElem)

NoMapper == [kind |-> None]

\* createMappers (createRowsMapper in part_004): the mapper of a single
\* basic type, or the mapper that closes over the holder suppliers made
\* for columnTypes
createMappers(holderElementType_, columnTypes, accessors, camt, ct) ==
  IF isSingleBasicType(holderElementType_)
    THEN [err |-> None, mapper |-> [kind |-> "single", forType |-> holderElementType_]]
    ELSE LET s == createHolderSuppliers(accessors, columnTypes, camt, ct)
         IN IF s.err # None
              THEN [err |-> s.err, mapper |-> NoMapper]
              ELSE [err |-> None,
                    mapper |-> [kind |-> "multi", holderElementType |-> holderElementType_,
                                holderSuppliers |-> s.holderSuppliers]]

\* a caller enters Propagate(d, rows) of src/propagate.go
CallMain(p, d, columnTypes, closed, limit) ==
  /\ pc[p] = "idle"
  /\ calls < limit
  /\ calls' = calls + 1
  /\ pc' = [pc EXCEPT ![p] = "main:holderType"]
  /\ dst' = [dst EXCEPT ![p] = d]
  /\ dstVal' = [dstVal EXCEPT ![p] = <<>>]
  /\ instances' = [instances EXCEPT ![p] = <<>>]
  /\ rows' = [rows EXCEPT ![p] = [columnTypes |-> columnTypes, pos |-> 0,
                                  closed |-> closed]]
  /\ UNCHANGED <<flagVars, mainVars, cacheVars, sdmWriter, holderElementType, found, scanDef, err,
                 compileVars>>

\* the checks of the shape of dst
BeginMain(p) ==
  /\ pc[p] = "main:holderType"
  /\ IF dst[p].kind = "nil"
       THEN pc' = [pc EXCEPT ![p] = "panicked"] /\ UNCHANGED <<err, holderElementType>>
     ELSE IF dst[p].kind # "ptr" \/ dst[p].elemKind # "slice"
       THEN ReturnWith(p, "destination must be a pointer to the slice")
            /\ UNCHANGED holderElementType
     ELSE LET e == mainElementType(dst[p].sliceElem)
          IN IF e.err # None
               THEN ReturnWith(p, e.err) /\ UNCHANGED holderElementType
               ELSE /\ pc' = [pc EXCEPT ![p] = "main:RLock"]
                    /\ holderElementType' = [holderElementType EXCEPT ![p] = e.type]
                    /\ UNCHANGED err
  /\ UNCHANGED <<flagVars, mainVars, cacheVars, sdmWriter, calls, argVars, found, scanDef, compileVars>>

\* RLock, mapper := holderElementTypes[holderElementType], RUnlock
LookupMain(p) ==
  /\ pc[p] = "main:RLock"
  /\ holderElementTypesMtx = None
  /\ IF holderElementType[p] \in DOMAIN holderElementTypes
       THEN /\ scanDef' = [scanDef EXCEPT ![p] =
                             [mapper |-> holderElementTypes[holderElementType[p]]]]
            /\ found' = [found EXCEPT ![p] = "shared"]
            /\ pc' = [pc EXCEPT ![p] = "main:mapper"]
       ELSE /\ pc' = [pc EXCEPT ![p] = "main:Lock"]
            /\ UNCHANGED <<scanDef, found>>
  /\ UNCHANGED <<flagVars, mainVars, cacheVars, sdmWriter, calls, argVars, holderElementType, err,
                 compileVars>>

\* holderElementTypesMtx.Lock()
LockMain(p) ==
  /\ pc[p] = "main:Lock"
  /\ holderElementTypesMtx = None
  /\ holderElementTypesMtx' = p
  /\ pc' = [pc EXCEPT ![p] = "main:locked"]
  /\ UNCHANGED <<flagVars, holderElementTypes, elementScanDefinitions, structProviders,
                 cacheVars, sdmWriter, calls, argVars, holderElementType, found, scanDef, err,
                 compileVars>>

\* the second lookup under the exclusive lock and, on a miss,
\* rows.ColumnTypes, createMappers, the store and the Unlock; the branch
\* on which the second lookup finds the mapper has no Unlock
RecheckCreateMain(p) ==
  /\ pc[p] = "main:locked"
  /\ LET t == holderElementType[p]
     IN IF t \in DOMAIN holderElementTypes
          THEN /\ scanDef' = [scanDef EXCEPT ![p] = [mapper |-> holderElementTypes[t]]]
               /\ found' = [found EXCEPT ![p] = "recheck"]
               /\ UNCHANGED holderElementTypesMtx
               /\ pc' = [pc EXCEPT ![p] = "main:mapper"]
               /\ UNCHANGED <<holderElementTypes, err>>
        ELSE IF rows[p].closed
          THEN /\ ReturnWith(p, "column types")
               /\ holderElementTypesMtx' = None
               /\ UNCHANGED <<holderElementTypes, scanDef, found>>
        ELSE IF ~isSingleBasicType(t) /\ ~ResolverTerminates(t)
          THEN /\ pc' = [pc EXCEPT ![p] = "resolverLoop"]
               /\ UNCHANGED <<holderElementTypes, holderElementTypesMtx, scanDef, found, err>>
        ELSE IF ~isSingleBasicType(t) /\ RecursesForEver(UnwrapPtr(t))
          THEN /\ pc' = [pc EXCEPT ![p] = "resolverRecursion"]
               /\ UNCHANGED <<holderElementTypes, holderElementTypesMtx, scanDef, found, err>>
        ELSE LET accessors == IF isSingleBasicType(t) THEN <<>> ELSE createFieldsAccessors(t)
                 c == createMappers(t, rows[p].columnTypes, accessors, columnAmountCheck,
                                    columnTypeCheck)
             IN /\ holderElementTypesMtx' = None
                /\ IF c.err # None
                     THEN /\ ReturnWith(p, c.err)
                          /\ UNCHANGED <<holderElementTypes, scanDef, found>>
                     ELSE /\ holderElementTypes' = (t :> c.mapper) @@ holderElementTypes
                          /\ scanDef' = [scanDef EXCEPT ![p] = [mapper |-> c.mapper]]
                          /\ found' = [found EXCEPT ![p] = "created"]
                          /\ pc' = [pc EXCEPT ![p] = "main:mapper"]
                          /\ UNCHANGED err
  /\ UNCHANGED <<flagVars, elementScanDefinitions, structProviders, cacheVars, sdmWriter, calls,
                 argVars, holderElementType, compileVars>>

\* a caller enters Propagate(d, rows) of src/unnamed/part_004
CallDefs(p, d, columnTypes, closed, limit) ==
  /\ pc[p] = "idle"
  /\ calls < limit
  /\ calls' = calls + 1
  /\ pc' = [pc EXCEPT ![p] = "defs:columnTypes"]
  /\ dst' = [dst EXCEPT ![p] = d]
  /\ dstVal' = [dstVal EXCEPT ![p] = <<>>]
  /\ instances' = [instances EXCEPT ![p] = <<>>]
  /\ rows' = [rows EXCEPT ![p] = [columnTypes |-> columnTypes, pos |-> 0,
                                  closed |-> closed]]
  /\ UNCHANGED <<flagVars, mainVars, cacheVars, sdmWriter, holderElementType, found, scanDef, err,
                 compileVars>>

\* rows.ColumnTypes() and the checks of the shape of dst
BeginDefs(p) ==
  /\ pc[p] = "defs:columnTypes"
  /\ IF rows[p].closed
       THEN ReturnWith(p, "column types") /\ UNCHANGED holderElementType
     ELSE IF dst[p].kind = "nil"
       THEN pc' = [pc EXCEPT ![p] = "panicked"] /\ UNCHANGED <<err, holderElementType>>
     ELSE IF dst[p].kind # "ptr" \/ dst[p].elemKind # "slice"
       THEN ReturnWith(p, "destination must be a pointer to the slice")
            /\ UNCHANGED holderElementType
     ELSE LET e == mainElementType(dst[p].sliceElem)
          IN IF e.err # None
               THEN ReturnWith(p, e.err) /\ UNCHANGED holderElementType
               ELSE /\ pc' = [pc EXCEPT ![p] = "defs:RLock"]
                    /\ holderElementType' = [holderElementType EXCEPT ![p] = e.type]
                    /\ UNCHANGED err
  /\ UNCHANGED <<flagVars, mainVars, cacheVars, sdmWriter, calls, argVars, found, scanDef, compileVars>>

\* RLock, findScanDefinition, RUnlock
FindDefs(p) ==
  /\ pc[p] = "defs:RLock"
  /\ holderElementTypesMtx = None
  /\ LET r == find(elementScanDefinitions, holderElementType[p], rows[p].columnTypes)
     IN IF r.found
          THEN /\ scanDef' = [scanDef EXCEPT ![p] = r.scanDef]
               /\ found' = [found EXCEPT ![p] = "shared"]
               /\ pc' = [pc EXCEPT ![p] = "main:mapper"]
          ELSE /\ pc' = [pc EXCEPT ![p] = "defs:Lock"]
               /\ UNCHANGED <<scanDef, found>>
  /\ UNCHANGED <<flagVars, mainVars, cacheVars, sdmWriter, calls, argVars, holderElementType, err,
                 compileVars>>

\* holderElementTypesMtx.Lock()
LockDefs(p) ==
  /\ pc[p] = "defs:Lock"
  /\ holderElementTypesMtx = None
  /\ holderElementTypesMtx' = p
  /\ pc' = [pc EXCEPT ![p] = "defs:locked"]
  /\ UNCHANGED <<flagVars, holderElementTypes, elementScanDefinitions, structProviders,
                 cacheVars, sdmWriter, calls, argVars, holderElementType, found, scanDef, err,
                 compileVars>>

\* the second findScanDefinition under the exclusive lock and, on a miss,
\* createScanDefinition and the Unlock; the branch on which the second
\* findScanDefinition finds the definition has no Unlock
RecheckCreateDefs(p) ==
  /\ pc[p] = "defs:locked"
  /\ LET t == holderElementType[p]
         r == find(elementScanDefinitions, t, rows[p].columnTypes)
     IN IF r.found
          THEN /\ scanDef' = [scanDef EXCEPT ![p] = r.scanDef]
               /\ found' = [found EXCEPT ![p] = "recheck"]
               /\ UNCHANGED holderElementTypesMtx
               /\ pc' = [pc EXCEPT ![p] = "main:mapper"]
               /\ UNCHANGED <<elementScanDefinitions, err>>
        ELSE IF ~isSingleBasicType(t) /\ ~ResolverTerminates(t)
          THEN /\ pc' = [pc EXCEPT ![p] = "resolverLoop"]
               /\ UNCHANGED <<elementScanDefinitions, holderElementTypesMtx, scanDef, found, err>>
        ELSE IF ~isSingleBasicType(t) /\ RecursesForEver(UnwrapPtr(t))
          THEN /\ pc' = [pc EXCEPT ![p] = "resolverRecursion"]
               /\ UNCHANGED <<elementScanDefinitions, holderElementTypesMtx, scanDef, found, err>>
        ELSE LET accessors == IF isSingleBasicType(t) THEN <<>> ELSE createFieldsAccessors(t)
                 c == createMappers(t, rows[p].columnTypes, accessors, columnAmountCheck,
                                    columnTypeCheck)
                 sd == [columnTypes |-> rows[p].columnTypes, mapper |-> c.mapper]
             IN /\ holderElementTypesMtx' = None
                /\ IF c.err # None
                     THEN /\ ReturnWith(p, c.err)
                          /\ UNCHANGED <<elementScanDefinitions, scanDef, found>>
                     ELSE /\ elementScanDefinitions' = AppendScanDef(elementScanDefinitions, t, sd)
                          /\ scanDef' = [scanDef EXCEPT ![p] = sd]
                          /\ found' = [found EXCEPT ![p] = "created"]
                          /\ pc' = [pc EXCEPT ![p] = "main:mapper"]
                          /\ UNCHANGED err
  /\ UNCHANGED <<flagVars, holderElementTypes, structProviders, cacheVars, sdmWriter, calls,
                 argVars, holderElementType, compileVars>>

\* the mapper of a record type after it got the provider: the element of
\* the provider, the holders of the suppliers the mapper closes over,
\* rows.Scan into them, which fails unless there are as many of them as the
\* row has columns, and the append
ScanRowMain(p, outcome, holderSuppliers, provider) ==
  LET r == rows[p].pos + 1
      holderElement == Provide(provider)
      underlyingValue == unwrapPtrStructValue(holderElement)
      fieldsOf == {i \in 1..Len(holderSuppliers) : holderSuppliers[i].kind = "field"}
      addressable == \A i \in fieldsOf :
                       /\ FieldByIndex(underlyingValue, holderSuppliers[i].path, 1) # Panic
                       /\ PathExported(provider.actualType, holderSuppliers[i].path, 1)
      stores == /\ Len(holderSuppliers) = Len(rows[p].columnTypes)
                /\ outcome = "null" =>
                     \A i \in fieldsOf :
                       AcceptsNull(TypeByIndex(provider.actualType, holderSuppliers[i].path, 1))
  IN /\ Advance(p)
     /\ IF holderElement = Panic \/ underlyingValue = Panic \/ ~addressable
          THEN /\ pc' = [pc EXCEPT ![p] = "panicked"]
               /\ UNCHANGED <<dstVal, instances, err>>
          ELSE /\ outcome = "fail" \/ stores
               /\ IF outcome = "fail"
                    THEN ReturnWith(p, "scan") /\ UNCHANGED <<dstVal, instances>>
                    ELSE /\ Inject(p, holderElementType[p],
                                   ScanFields(holderElement, provider.actualType,
                                              holderSuppliers, rows[p].columnTypes, 1,
                                              outcome = "null", r),
                                   InstanceCount(provider))
                         /\ UNCHANGED err

\* the mapper of a record type, one iteration of the loop on a row: the
\* provider of the element type from getStructProviderSync, then the row
MultiNextRowMain(p, outcome) ==
  LET m == scanDef[p].mapper
      prov == structProviderGetOrCreate(structProviders, m.holderElementType)
  IN /\ structProviders' = prov.byType
     /\ IF prov.err # None
          THEN /\ ReturnWith(p, prov.err)
               /\ rows' = [rows EXCEPT ![p].pos = rows[p].pos + 1, ![p].closed = TRUE]
               /\ UNCHANGED <<dstVal, instances>>
          ELSE ScanRowMain(p, outcome, m.holderSuppliers, prov.provider)

\* rows.Next() returned true: the mapper scans the row and appends
NextRowMain(p) ==
  /\ pc[p] = "main:mapper"
  /\ rows[p].pos < MaxRows
  /\ \E outcome \in {"value", "null", "fail"} :
       IF scanDef[p].mapper.kind = "single"
         THEN SingleNextRow(p, outcome) /\ UNCHANGED structProviders
         ELSE MultiNextRowMain(p, outcome)
  /\ UNCHANGED <<flagVars, holderElementTypes, elementScanDefinitions, holderElementTypesMtx,
                 cacheVars, sdmWriter, calls, dst, holderElementType, found, scanDef,
                 compileVars>>

\* rows.Next() returned false: rows.Err() or rows.Close() is returned
EndOfRowsMain(p) ==
  /\ pc[p] = "main:mapper"
  /\ \E outcome \in {"eof", "error"} :
       ReturnWith(p, IF outcome = "eof" THEN None ELSE "rows")
  /\ rows' = [rows EXCEPT ![p].closed = TRUE]
  /\ UNCHANGED <<flagVars, mainVars, cacheVars, sdmWriter, calls, dst, dstVal, instances,
                 holderElementType, found, scanDef, compileVars>>

StepMain(p) ==
  \/ BeginMain(p)
  \/ LookupMain(p)
  \/ LockMain(p)
  \/ RecheckCreateMain(p)
  \/ ResolverLoop(p)
  \/ NextRowMain(p)
  \/ EndOfRowsMain(p)
  \/ Return(p)

StepDefs(p) ==
  \/ BeginDefs(p)
  \/ FindDefs(p)
  \/ LockDefs(p)
  \/ RecheckCreateDefs(p)
  \/ ResolverLoop(p)
  \/ NextRowMain(p)
  \/ EndOfRowsMain(p)
  \/ Return(p)

(***************************************************************************)
(* Specifications.                                                         *)
(***************************************************************************)
Step(p) ==
  \/ Begin(p)
  \/ FindShared(p)
  \/ Lock(p)
  \/ RecheckCreate(p)
  \/ ResolverLoop(p)
  \/ LoadAmountCheck(p)
  \/ LoadTypeCheck(p)
  \/ CreateScanDef(p)
  \/ NextRow(p)
  \/ EndOfRows(p)
  \/ Return(p)

Configure ==
  \/ \E strict \in BOOLEAN : StrictColumnTypeCheck(strict)
  \/ \E strict \in BOOLEAN : StrictColumnAmountCheck(strict)

\* one caller making calls one after the other while the configuration is
\* changed at any moment
Next ==
  \/ Configure
  \/ \E d \in Dsts, c \in Sigs, closed \in BOOLEAN : Call("p1", d, c, closed, MaxCalls)
  \/ Step("p1")

Spec == Init /\ [][Next]_vars

\* one caller making calls one after the other, the configuration being
\* changed between the calls only
NextSeq ==
  \/ (\A p \in Procs : pc[p] = "idle") /\ Configure
  \/ \E d \in Dsts, c \in Sigs, closed \in BOOLEAN : Call("p1", d, c, closed, MaxCalls)
  \/ Step("p1")

SpecSeq == Init /\ [][NextSeq]_vars

\* callers racing on the same record types and column types
NextRace ==
  \/ Configure
  \/ \E p \in Procs, d \in RaceDsts, c \in RaceSigs : Call(p, d, c, FALSE, MaxRaceCalls)
  \/ \E p \in Procs : Step(p)

SpecRace == Init /\ [][NextRace]_vars

\* the racing callers when the scheduler lets every caller that can take
\* a step take one in the end
SpecRaceFair == SpecRace /\ \A p \in Procs : WF_vars(Step(p))

\* one caller propagating the record types of BindDsts from the queries of
\* BindSigs while the configuration is changed at any moment
NextBind ==
  \/ Configure
  \/ \E d \in BindDsts, c \in BindSigs : Call("p1", d, c, FALSE, MaxBindCalls)
  \/ Step("p1")

SpecBind == Init /\ [][NextBind]_vars

\* one caller propagating again and again from queries whose column id
\* has the same name and scan type
NextRepeat ==
  \/ Configure
  \/ \E d \in RepeatDsts, c \in RepeatSigs : Call("p1", d, c, FALSE, MaxCalls)
  \/ Step("p1")

SpecRepeat == Init /\ [][NextRepeat]_vars

\* one caller propagating record types that reach themselves
NextCycle ==
  \/ Configure
  \/ \E d \in CycleDsts, c \in CycleSigs : Call("p1", d, c, FALSE, MaxCalls)
  \/ Step("p1")
  \/ ResolverRecurse("p1")
  \/ StackOverflow("p1")

SpecCycle == Init /\ [][NextCycle]_vars

\* src/propagate.go: one caller making calls one after the other
NextMain ==
  \/ \E d \in MainDsts, c \in MainSigs, closed \in BOOLEAN : CallMain("p1", d, c, closed, MaxCalls)
  \/ StepMain("p1")

SpecMain == Init /\ [][NextMain]_vars

\* src/propagate.go: two callers racing
NextMainRace ==
  \E p \in Procs :
    \/ \E d \in MainRaceDsts, c \in MainRaceSigs : CallMain(p, d, c, FALSE, MaxRaceCalls)
    \/ StepMain(p)

SpecMainRace == Init /\ [][NextMainRace]_vars

\* src/unnamed/part_004: two callers racing
NextDefsRace ==
  \E p \in Procs :
    \/ \E d \in MainRaceDsts, c \in MainRaceSigs, closed \in BOOLEAN :
         CallDefs(p, d, c, closed, MaxRaceCalls)
    \/ StepDefs(p)

SpecDefsRace == Init /\ [][NextDefsRace]_vars

\* one caller propagating into slices that hold elements already
NextAppend ==
  \/ Configure
  \/ \E d \in AppendDsts, c \in AppendSigs, closed \in BOOLEAN, present \in PresentElements :
       CallOnto("p1", d, c, closed, present, MaxCalls)
  \/ Step("p1")

SpecAppend == Init /\ [][NextAppend]_vars

(***************************************************************************)
(* Properties.                                                             *)
(***************************************************************************)
StrictnessErrors == {"no mapping", "type mismatch"}

\* the element type has a scan definition with exactly these column types
Cached(elemType, columnTypes) ==
  \E i \in 1..Len(ScanDefsOf(scanDefsByType, elemType)) :
    scanDefsByType[elemType][i].columnTypes = columnTypes

\* the caller is inside a Propagate call that has got past the shape checks
InCall(p) == pc[p] \notin {"idle", "columnTypes"}

\* C1: callers racing on the first use of an element type with the same
\* column types leave one scan definition for them: no per-type list ever
\* holds two definitions with equal column types, and every caller that got
\* a definition from getOrCreateSync holds the one of the list.
C1_OnePlanPerSignature ==
  /\ \A t \in DOMAIN scanDefsByType :
       \A i, j \in 1..Len(scanDefsByType[t]) :
         scanDefsByType[t][i].columnTypes = scanDefsByType[t][j].columnTypes => i = j
  /\ \A p \in Procs :
       found[p] # None =>
         \E i \in 1..Len(ScanDefsOf(scanDefsByType, holderElementType[p])) :
           /\ scanDefsByType[holderElementType[p]][i] = scanDef[p]
           /\ scanDef[p].columnTypes = rows[p].columnTypes

\* two callers raced: one created the definition, the other one missed it
\* under the shared lock and found it on the re-check
C1_Witness ==
  \E p, q \in Procs :
    /\ p # q
    /\ found[p] = "created" /\ found[q] = "recheck"
    /\ holderElementType[p] = holderElementType[q]
    /\ rows[p].columnTypes = rows[q].columnTypes
    /\ scanDef[p] = scanDef[q]

\* C2: a Propagate call that has returned has closed its rows.
C2_RowsClosedOnReturn ==
  \A p \in Procs : pc[p] = "returned" => rows[p].closed

\* the field of the (pointer to) struct type t that a path leads to from
\* position j on, NoField if the path leaves the struct
NoField == Fld("", NoTag, "")

RECURSIVE FieldAtPath(_, _, _)
FieldAtPath(t, path, j) ==
  LET s == UnwrapPtr(t)
  IN IF Kind(s) # "struct" \/ path[j] >= NumField(s) THEN NoField
     ELSE IF j = Len(path) THEN Field(s, path[j])
     ELSE FieldAtPath(Field(s, path[j]).type, path, j + 1)

\* C3: after accessor resolution every accessor's index path is the path
\* from the record root to a field registered under the accessor's key with
\* the accessor's type, and no two keys share a path.
C3_AccessorPaths ==
  \A p \in Procs :
    LET table == columnAliasToAccessor[p]
    IN /\ \A k \in DOMAIN table :
            /\ Len(table[k].fieldIndex) >= 1
            /\ LET f == FieldAtPath(holderElementType[p], table[k].fieldIndex, 1)
               IN f # NoField /\ ColumnAlias(f) = k /\ f.type = table[k].fieldType
       /\ \A k1, k2 \in DOMAIN table :
            table[k1].fieldIndex = table[k2].fieldIndex => k1 = k2

\* the struct type is descended into, not written as one value
IsRecord(t) == Kind(t) = "struct" /\ ~isSmallestStructDecomposition(t)

\* every pointer to a record inside a value v of type t is set
RECURSIVE PtrStructsNonNil(_, _)
PtrStructsNonNil(t, v) ==
  CASE Kind(t) = "ptr" /\ IsRecord(UnwrapPtr(t)) ->
         v.k = "ref" /\ PtrStructsNonNil(Elem(t), v.v)
    [] IsRecord(t) ->
         /\ v.k = "struct"
         /\ \A i \in 1..NumField(t) : PtrStructsNonNil(Field(t, i - 1).type, v.f[i])
    [] OTHER -> TRUE

\* the leaf fields of the struct type t, nested records flattened, each
\* with its index path (prefix is the path of t)
RECURSIVE LeafFields(_, _)
LeafFields(t, prefix) ==
  UNION {LET f == Field(t, i)
         IN IF IsRecord(UnwrapPtr(f.type))
              THEN LeafFields(UnwrapPtr(f.type), Append(prefix, i))
              ELSE {[path |-> Append(prefix, i), alias |-> ColumnAlias(f), type |-> f.type]}
         : i \in 0..(NumField(t) - 1)}

\* C4: in every record appended for a record element type every pointer to
\* a nested record is set, and every leaf field with a like-named column
\* holds what the scan stored for that column of the record's row.
C4_NestedPopulated ==
  \A p \in Procs :
    scanDef[p].mapper.kind = "multi" =>
      \A r \in 1..Len(dstVal[p]) :
        LET e == dstVal[p][r]
            t == dst[p].sliceElem
            columnTypes == rows[p].columnTypes
        IN /\ PtrStructsNonNil(t, e)
           /\ \A lf \in LeafFields(UnwrapPtr(t), <<>>) :
                \A i \in 1..Len(columnTypes) :
                  ToLower[columnTypes[i].name] = lf.alias =>
                    LET v == FieldByIndex(unwrapPtrStructValue(e), lf.path, 1)
                    IN \/ v = ScanValue(lf.type, FALSE, r, columnTypes[i].name)
                       \/ AcceptsNull(lf.type) /\ v = Nil

\* the type passes elementType, is no single basic type and is not a
\* (pointer to a) struct
NonStruct(t) == ~isSingleBasicType(t) /\ Kind(UnwrapPtr(t)) # "struct"

\* C5: a Propagate for an element type that is neither a single basic type
\* nor struct-like returns an error: it does not loop in the resolver, does
\* not panic, runs no mapper, and no scan definition is cached for the type.
C5_NonStructReturnsError ==
  \A p \in Procs :
    (InCall(p) /\ holderElementType[p] # "" /\ NonStruct(holderElementType[p])) =>
      /\ pc[p] \in {"getOrCreateSync", "Lock", "locked", "returned"}
      /\ pc[p] = "returned" => err[p] # None
      /\ holderElementType[p] \notin DOMAIN scanDefsByType

\* dst is no pointer to a slice, or the slice's element type is unsupported
ShapeError(d) ==
  \/ d.kind # "ptr"
  \/ d.elemKind # "slice"
  \/ Kind(d.sliceElem) \in UnsupportedKinds

\* C6: with a destination of a wrong shape the step that follows
\* rows.ColumnTypes() returns an error and leaves the caches, the rows and
\* the destination as they are.
C6_ShapeErrorNoWork ==
  [][\A p \in Procs :
       (ShapeError(dst[p]) /\ pc[p] = "columnTypes" /\ pc'[p] # "columnTypes") =>
         /\ pc'[p] = "returned"
         /\ err'[p] # None
         /\ UNCHANGED <<scanDefsByType, providersByType, serial, rows, dstVal>>]_vars

\* the fields of the struct type t and of the records nested in it
RECURSIVE AllFields(_)
AllFields(t) ==
  UNION {LET f == Field(t, i)
         IN {f} \cup (IF IsStructOrPtrToStruct(f.type) THEN AllFields(UnwrapPtr(f.type)) ELSE {})
         : i \in 0..(NumField(t) - 1)}

\* the declared types of the fields of record type t a column name matches
DeclaredTypes(t, name) ==
  {f.type : f \in {g \in AllFields(UnwrapPtr(t)) : ColumnAlias(g) = ToLower[name]}}

HasUnmatched(t, columnTypes) ==
  \E i \in 1..Len(columnTypes) : DeclaredTypes(t, columnTypes[i].name) = {}

HasMismatch(t, columnTypes) ==
  \E i \in 1..Len(columnTypes) :
    /\ DeclaredTypes(t, columnTypes[i].name) # {}
    /\ columnTypes[i].scanType \notin DeclaredTypes(t, columnTypes[i].name)

IsRecordElem(t) == t # "" /\ ~isSingleBasicType(t) /\ Kind(UnwrapPtr(t)) = "struct"

\* C7: the step of plan compilation that ends in a strictness error leaves
\* the plan lists as they were, the pair having no plan; a caller that
\* returned a strictness error has no plan cached for its pair; and every
\* compilation decides by the flags it read itself: it fails exactly when
\* they are violated and otherwise caches the plan.
C7_StrictnessErrorNotCached ==
  /\ [](\A p \in Procs :
          (pc[p] = "returned" /\ err[p] \in StrictnessErrors) =>
            ~Cached(holderElementType[p], rows[p].columnTypes))
  /\ [][\A p \in Procs :
          (pc[p] = "holderSuppliers" /\ pc'[p] # "holderSuppliers") =>
            LET t == holderElementType[p]
                columnTypes == rows[p].columnTypes
                violated == \/ camtChk[p] /\ HasUnmatched(t, columnTypes)
                            \/ ctChk[p] /\ HasMismatch(t, columnTypes)
            IN IF violated
                 THEN /\ pc'[p] = "returned"
                      /\ err'[p] \in StrictnessErrors
                      /\ scanDefsByType' = scanDefsByType
                 ELSE /\ pc'[p] = "mapper"
                      /\ err'[p] = None
                      /\ ScanDefsOf(scanDefsByType', t)
                           = Append(ScanDefsOf(scanDefsByType, t), scanDef'[p])]_vars

\* the second call failed plan compilation with a strictness error
C7_Witness ==
  \E p \in Procs :
    /\ calls = 2
    /\ pc[p] = "returned"
    /\ err[p] \in StrictnessErrors
    /\ ~Cached(holderElementType[p], rows[p].columnTypes)

\* C8: a lookup for a pair that has a cached plan yields that plan at once:
\* no compilation, no change of the caches, no error, whatever the flags
\* are; a caller that got its plan from the cache never returns a
\* strictness error.
C8_CachedPlanIgnoresFlags ==
  /\ [](\A p \in Procs :
          found[p] \in {"shared", "recheck"} => err[p] \notin StrictnessErrors)
  /\ [][\A p \in Procs :
          (/\ pc[p] = "getOrCreateSync"
           /\ pc'[p] # "getOrCreateSync"
           /\ Cached(holderElementType[p], rows[p].columnTypes)) =>
            /\ pc'[p] = "mapper"
            /\ err'[p] = None
            /\ scanDef'[p].columnTypes = rows[p].columnTypes
            /\ \E i \in 1..Len(ScanDefsOf(scanDefsByType, holderElementType[p])) :
                 scanDefsByType[holderElementType[p]][i] = scanDef'[p]
            /\ UNCHANGED <<scanDefsByType, providersByType, serial>>]_vars

\* a plan that discards a column was used from the cache, rows were
\* appended and nil returned while both strictness flags are on
C8_Witness ==
  \E p \in Procs :
    /\ found[p] = "shared"
    /\ pc[p] = "returned" /\ err[p] = None
    /\ Len(dstVal[p]) >= 1
    /\ columnAmountCheck /\ columnTypeCheck
    /\ scanDef[p].mapper.kind = "multi"
    /\ \E i \in 1..Len(scanDef[p].mapper.holderSuppliers) :
         scanDef[p].mapper.holderSuppliers[i].kind = "skip"

\* C9 as stated: amount-strictness being enabled during a Propagate for a
\* record element type whose query returns a column with no matching
\* field, the call runs no mapper, appends nothing and returns a strictness
\* error.
C9_AmountStrictAlwaysFails ==
  \A p \in Procs :
    (/\ columnAmountCheck
     /\ InCall(p)
     /\ IsRecordElem(holderElementType[p])
     /\ HasUnmatched(holderElementType[p], rows[p].columnTypes)) =>
      /\ pc[p] \notin {"mapper", "panicked"}
      /\ dstVal[p] = <<>>
      /\ pc[p] = "returned" => err[p] \in StrictnessErrors

\* C9 amended: a Propagate that compiles the plan, having read
\* amount-strictness as enabled, for a query with a column that matches no
\* field returns a strictness error (the type mismatch only if it read
\* type-strictness as enabled too), scans no row and appends nothing.
C9_AmountStrictAtCompile ==
  \A p \in Procs :
    (camtChk[p] /\ HasUnmatched(holderElementType[p], rows[p].columnTypes)) =>
      /\ pc[p] \in {"strictColumnTypeCheck", "holderSuppliers", "returned"}
      /\ pc[p] = "returned" =>
           /\ err[p] \in StrictnessErrors
           /\ err[p] = "type mismatch" => ctChk[p]
      /\ dstVal[p] = <<>>
      /\ rows[p].pos = 0

\* the no-mapping error was returned by the second call
C9_Witness ==
  \E p \in Procs :
    /\ calls = 2
    /\ camtChk[p]
    /\ HasUnmatched(holderElementType[p], rows[p].columnTypes)
    /\ pc[p] = "returned" /\ err[p] = "no mapping"

\* C10: a compilation that read type-strictness as enabled, for column
\* types of which a matched one has a scan type other than the declared
\* type of its field, returns a strictness error before any row is scanned
\* or appended; when all matched columns have the declared types and
\* amount-strictness was read as disabled it succeeds, whatever the scan
\* types of the columns without a field.
C10_TypeStrictAtCompile ==
  \A p \in Procs :
    (ctChk[p] /\ pc[p] # "holderSuppliers") =>
      LET t == holderElementType[p]
          columnTypes == rows[p].columnTypes
      IN /\ HasMismatch(t, columnTypes) =>
              /\ pc[p] = "returned"
              /\ err[p] \in StrictnessErrors
              /\ err[p] = "no mapping" => camtChk[p]
              /\ rows[p].pos = 0
              /\ dstVal[p] = <<>>
         /\ (~HasMismatch(t, columnTypes) /\ ~camtChk[p]) =>
              /\ found[p] = "created"
              /\ err[p] \notin StrictnessErrors

\* the type mismatch was returned, no row scanned
C10_Witness ==
  \E p \in Procs :
    /\ ctChk[p]
    /\ HasMismatch(holderElementType[p], rows[p].columnTypes)
    /\ pc[p] = "returned" /\ err[p] = "type mismatch"
    /\ rows[p].pos = 0 /\ ~rows[p].closed

\* the plan of the caller was compiled in this call with both checks off
CompiledNonStrict(p) ==
  /\ found[p] = "created"
  /\ scanDef[p].mapper.kind = "multi"
  /\ ~camtChk[p] /\ ~ctChk[p]

\* the names under which the fields of the record type t are registered
RegisteredNames(t) == {ColumnAlias(f) : f \in AllFields(UnwrapPtr(t))}

\* the leaf field is the only field of the record type t with its name
UniqueName(t, lf) ==
  Cardinality({f \in LeafFields(UnwrapPtr(t), <<>>) : f.alias = lf.alias}) = 1
    /\ \A f \in AllFields(UnwrapPtr(t)) : ColumnAlias(f) = lf.alias => f.type = lf.type

\* C11: in a plan compiled with both checks off a column whose name no
\* field is registered under is bound to the discard supplier, and in every
\* record appended through the plan a leaf field no column is named as has
\* its zero value, while a leaf field that alone bears the name of a column
\* holds what the scan stored for that column of the record's row.
C11_ExactlyMatchedFieldsPopulated ==
  \A p \in Procs :
    CompiledNonStrict(p) =>
      LET t == dst[p].sliceElem
          columnTypes == rows[p].columnTypes
          columns == 1..Len(columnTypes)
      IN /\ \A i \in columns :
              ToLower[columnTypes[i].name] \notin RegisteredNames(t) =>
                scanDef[p].mapper.holderSuppliers[i] = holderSkipColumn
         /\ \A r \in 1..Len(dstVal[p]) :
              \A lf \in LeafFields(UnwrapPtr(t), <<>>) :
                LET v == FieldByIndex(unwrapPtrStructValue(dstVal[p][r]), lf.path, 1)
                    named == {i \in columns : ToLower[columnTypes[i].name] = lf.alias}
                IN /\ named = {} => v = Zero(lf.type)
                   /\ (named # {} /\ UniqueName(t, lf)) =>
                        \E i \in named :
                          \/ v = ScanValue(lf.type, FALSE, r, columnTypes[i].name)
                          \/ AcceptsNull(lf.type) /\ v = Nil

\* the caller holds a plan for a record type that this call compiled
CompiledRecordPlan(p) == found[p] = "created" /\ scanDef[p].mapper.kind = "multi"

\* no other field of the record type t is registered under the name of f
SoleBearer(t, f) ==
  \A g \in AllFields(UnwrapPtr(t)) : ColumnAlias(g) = ColumnAlias(f) => g = f

\* the supplier the plan of p has for column i addresses the field f
BoundTo(p, i, f) ==
  LET s == scanDef[p].mapper.holderSuppliers[i]
  IN s.kind = "field" /\ FieldAtPath(dst[p].sliceElem, s.path, 1) = f

\* C12: in a compiled plan a column whose lower-cased name is the
\* lower-cased declared name of an untagged field, the only field of that
\* name, is bound to the address of that field, whatever the letter case of
\* the two names.
C12_DefaultNamesCaseInsensitive ==
  \A p \in Procs :
    CompiledRecordPlan(p) =>
      \A i \in 1..Len(rows[p].columnTypes) :
        \A f \in AllFields(UnwrapPtr(dst[p].sliceElem)) :
          (/\ f.tag = NoTag
           /\ ToLower[f.name] = ToLower[rows[p].columnTypes[i].name]
           /\ SoleBearer(dst[p].sliceElem, f)) => BoundTo(p, i, f)

\* C13: in a compiled plan a column whose name equals, up to letter case,
\* the db_column tag of a field, the only field of that name, is bound to
\* the address of that field.
C13_OverridesCaseInsensitive ==
  \A p \in Procs :
    CompiledRecordPlan(p) =>
      \A i \in 1..Len(rows[p].columnTypes) :
        \A f \in AllFields(UnwrapPtr(dst[p].sliceElem)) :
          (/\ f.tag # NoTag
           /\ ToLower[f.tag] = ToLower[rows[p].columnTypes[i].name]
           /\ SoleBearer(dst[p].sliceElem, f)) => BoundTo(p, i, f)

\* C14: in a compiled plan a column named as the db_column tag of a field
\* is bound to the address of that field, and a column named as the
\* lower-cased declared name of a tagged field is not.
C14_OverrideOnly ==
  \A p \in Procs :
    CompiledRecordPlan(p) =>
      \A i \in 1..Len(rows[p].columnTypes) :
        \A f \in AllFields(UnwrapPtr(dst[p].sliceElem)) :
          (f.tag # NoTag /\ SoleBearer(dst[p].sliceElem, f)) =>
            /\ rows[p].columnTypes[i].name = f.tag => BoundTo(p, i, f)
            /\ (/\ ToLower[rows[p].columnTypes[i].name] = ToLower[f.name]
                /\ ToLower[f.name] # f.tag) => ~BoundTo(p, i, f)

\* the registrations of the resolver for the struct type t from field i
\* on, in the order it makes them: the fields in declaration order, the
\* registrations of a struct-like field's own fields before the field
RECURSIVE RegistrationOrder(_, _, _)
RegistrationOrder(t, prefix, i) ==
  IF i >= NumField(t) THEN <<>>
  ELSE LET f == Field(t, i)
           below == IF IsStructOrPtrToStruct(f.type)
                      THEN RegistrationOrder(UnwrapPtr(f.type), Append(prefix, i), 0)
                      ELSE <<>>
       IN below \o <<[alias |-> ColumnAlias(f), type |-> f.type, parent |-> prefix]>>
                \o RegistrationOrder(t, prefix, i + 1)

\* the last registration under the name k
LastRegistered(order, k) ==
  order[CHOOSE n \in 1..Len(order) :
          /\ order[n].alias = k
          /\ \A m \in (n + 1)..Len(order) : order[m].alias # k]

\* C15: once the resolver has returned for a record type, its table has an
\* entry for every name a field of the field tree registers, and the entry
\* of a name is the accessor of the registration made last under that name:
\* it has the declared type of that field and leads into the struct that
\* declares it.
C15_LastRegistrationWins ==
  \A p \in Procs :
    (IsRecordElem(holderElementType[p])
       /\ pc[p] \in {"strictColumnAmountCheck", "strictColumnTypeCheck", "holderSuppliers"}) =>
      LET table == columnAliasToAccessor[p]
          order == RegistrationOrder(UnwrapPtr(holderElementType[p]), <<>>, 0)
      IN /\ DOMAIN table = {order[n].alias : n \in 1..Len(order)}
         /\ \A k \in DOMAIN table :
              LET last == LastRegistered(order, k)
              IN /\ table[k].fieldType = last.type
                 /\ Len(table[k].fieldIndex) = Len(last.parent) + 1
                 /\ SubSeq(table[k].fieldIndex, 1, Len(last.parent)) = last.parent

\* the table of shadowStruct: id is the field of the later sibling's
\* struct, col1 the later sibling, inner the field and not its descendant
C15_Witness ==
  \E p \in Procs :
    /\ holderElementType[p] = "shadowStruct"
    /\ pc[p] = "holderSuppliers"
    /\ columnAliasToAccessor[p]["id"] = [fieldType |-> "string", fieldIndex |-> <<1, 0>>]
    /\ columnAliasToAccessor[p]["col1"] = [fieldType |-> "string", fieldIndex |-> <<2>>]
    /\ columnAliasToAccessor[p]["inner"] = [fieldType |-> "inner", fieldIndex |-> <<1>>]

\* C16: while a Propagate into a slice of a single basic type (or of
\* pointers to one) reads a stream of one column and no scan has failed, it
\* does not panic, the slice has one element for every row read, and
\* element i is what the scan stored for row i.
C16_ScalarsInRowOrder ==
  \A p \in Procs :
    (/\ InCall(p)
     /\ dst[p].kind = "ptr" /\ dst[p].elemKind = "slice"
     /\ isSingleBasicType(dst[p].sliceElem)
     /\ Len(rows[p].columnTypes) = 1
     /\ err[p] # "scan") =>
      /\ pc[p] # "panicked"
      /\ Len(dstVal[p]) = rows[p].pos
      /\ \A i \in 1..Len(dstVal[p]) :
           \/ dstVal[p][i] = ScanValue(dst[p].sliceElem, FALSE, i, rows[p].columnTypes[1].name)
           \/ AcceptsNull(dst[p].sliceElem) /\ dstVal[p][i] = Nil

\* the columns in the order a permutation of their positions puts them
Reordered(columnTypes, perm) == [i \in 1..Len(columnTypes) |-> columnTypes[perm[i]]]

\* the record the plan compiled for these columns by the caller's record
\* type makes of row r
RecordOf(p, columnTypes, r, null) ==
  LET provider == scanDef[p].mapper.provider
      suppliers == createHolderSuppliers(columnAliasToAccessor[p], columnTypes, FALSE, FALSE)
  IN ScanFields(Provide(provider), provider.actualType, suppliers.holderSuppliers,
                columnTypes, 1, null, r)

\* C17: every record appended through a compiled plan is the record that
\* the plan compiled for the same columns in any other order makes of the
\* same row.
C17_ColumnOrderIrrelevant ==
  \A p \in Procs :
    CompiledRecordPlan(p) =>
      \A r \in 1..Len(dstVal[p]) :
        \A perm \in Permutations(1..Len(rows[p].columnTypes)) :
          \E null \in BOOLEAN :
            dstVal[p][r] = RecordOf(p, Reordered(rows[p].columnTypes, perm), r, null)

\* what the mapper of the caller's plan makes of row r
ElementOfRow(p, r, null) ==
  LET m == scanDef[p].mapper
  IN IF m.kind = "single"
       THEN ScanValue(m.forType, null, r, rows[p].columnTypes[1].name)
       ELSE ScanFields(Provide(m.provider), m.provider.actualType, m.holderSuppliers,
                       rows[p].columnTypes, 1, null, r)

\* C18: the step in which rows.Scan fails returns the scan error and
\* leaves the slice as it is, with one element for every row read before;
\* after Propagate has returned the scan error of row k the slice holds
\* k-1 elements, element i being what the mapper made of row i.
C18_ScanErrorKeepsEarlierRows ==
  /\ [](\A p \in Procs :
          (pc[p] = "returned" /\ err[p] = "scan") =>
            /\ rows[p].pos >= 1
            /\ Len(dstVal[p]) = rows[p].pos - 1
            /\ \A i \in 1..Len(dstVal[p]) :
                 \E null \in BOOLEAN : dstVal[p][i] = ElementOfRow(p, i, null))
  /\ [][\A p \in Procs :
          (pc[p] = "mapper" /\ err'[p] = "scan") =>
            /\ pc'[p] = "returned"
            /\ dstVal'[p] = dstVal[p]
            /\ Len(dstVal[p]) = rows[p].pos
            /\ rows'[p].pos = rows[p].pos + 1]_vars

\* the scan of the second row of a record query failed: the record of the
\* first row is in the slice
C18_Witness ==
  \E p \in Procs :
    /\ pc[p] = "returned" /\ err[p] = "scan"
    /\ scanDef[p].mapper.kind = "multi"
    /\ rows[p].pos = 2
    /\ Len(dstVal[p]) = 1

\* the column types agree in number and, position by position, in column
\* name and scan type
SameNamesAndScanTypes(c1, c2) ==
  /\ Len(c1) = Len(c2)
  /\ \A j \in 1..Len(c1) : c1[j].name = c2[j].name /\ c1[j].scanType = c2[j].scanType

\* C19: no list of scan definitions holds two definitions whose column
\* types agree in number, names and scan types, and a lookup for column
\* types that agree so with those of a definition of the element type goes
\* on to the mapper without compiling and leaves the lists as they are.
C19_ReuseByNameAndScanType ==
  /\ [](\A t \in DOMAIN scanDefsByType :
          \A i, j \in 1..Len(scanDefsByType[t]) :
            SameNamesAndScanTypes(scanDefsByType[t][i].columnTypes,
                                  scanDefsByType[t][j].columnTypes) => i = j)
  /\ [][\A p \in Procs :
          (/\ pc[p] = "getOrCreateSync"
           /\ pc'[p] # "getOrCreateSync"
           /\ \E i \in 1..Len(ScanDefsOf(scanDefsByType, holderElementType[p])) :
                SameNamesAndScanTypes(scanDefsByType[holderElementType[p]][i].columnTypes,
                                      rows[p].columnTypes)) =>
            /\ pc'[p] = "mapper"
            /\ scanDefsByType' = scanDefsByType]_vars

\* the fields of the struct type t and of the records nested in it, a
\* smallest struct decomposition being a leaf
RECURSIVE FieldsDownToLeaves(_)
FieldsDownToLeaves(t) ==
  UNION {LET f == Field(t, i)
         IN {f} \cup (IF IsRecord(UnwrapPtr(f.type))
                        THEN FieldsDownToLeaves(UnwrapPtr(f.type)) ELSE {})
         : i \in 0..(NumField(t) - 1)}

\* C20: once the resolver has returned for a record type, the names of its
\* table are the names of the fields of the record and of the records
\* nested in it, a field of a smallest struct decomposition (or a pointer
\* to one) being registered without the fields inside it.
C20_OpaqueLeaves ==
  \A p \in Procs :
    (IsRecordElem(holderElementType[p])
       /\ pc[p] \in {"strictColumnAmountCheck", "strictColumnTypeCheck", "holderSuppliers"}) =>
      DOMAIN columnAliasToAccessor[p]
        = {ColumnAlias(f) : f \in FieldsDownToLeaves(UnwrapPtr(holderElementType[p]))}

\* the index paths of the fields of struct type t, and of the structs
\* below it, that the resolver descends into: those whose kind is Struct
\* or pointer to Struct
RECURSIVE ResolverDescendsInto(_, _)
ResolverDescendsInto(t, prefix) ==
  UNION {LET f == Field(t, i)
             path == Append(prefix, i)
         IN IF IsStructOrPtrToStruct(f.type)
              THEN {path} \cup ResolverDescendsInto(UnwrapPtr(f.type), path)
              ELSE {}
         : i \in 0..(NumField(t) - 1)}

\* the index paths of the fields the init actions of a provider, and of
\* the providers they call, set
RECURSIVE ProviderAllocates(_, _)
ProviderAllocates(provider, prefix) ==
  UNION {LET a == provider.initActions[j]
             path == Append(prefix, a.idx)
         IN {path} \cup ProviderAllocates(a.provider, path)
         : j \in 1..Len(provider.initActions)}

\* C21: for a compiled record plan, the path of every accessor of the
\* table leads, on a fresh instance of the plan's provider, to a field
\* without passing a nil pointer, and the fields the resolver descended
\* into are the fields the provider allocates.
C21_PathsAllocated ==
  \A p \in Procs :
    CompiledRecordPlan(p) =>
      LET provider == scanDef[p].mapper.provider
          fresh == unwrapPtrStructValue(Provide(provider))
      IN /\ \A k \in DOMAIN columnAliasToAccessor[p] :
              FieldByIndex(fresh, columnAliasToAccessor[p][k].fieldIndex, 1) # Panic
         /\ ResolverDescendsInto(provider.actualType, <<>>) = ProviderAllocates(provider, <<>>)

\* the providers the cache holds and those the plans of the callers hold
ProvidersInUse ==
  {providersByType[t] : t \in DOMAIN providersByType}
    \cup {scanDef[p].mapper.provider : p \in {q \in Procs : scanDef[q].mapper.kind = "multi"}}

\* C22: every provider has an init action for exactly the fields that are
\* records or pointers to records, and in the fresh instance it returns
\* these fields are set while every other field (a basic type, a pointer
\* to one, a smallest struct decomposition or a pointer to one) has its
\* zero value, a pointer being nil.
C22_LeavesStayZero ==
  \A provider \in ProvidersInUse :
    LET t == provider.actualType
        fresh == unwrapPtrStructValue(Provide(provider))
        records == {i \in 0..(NumField(t) - 1) : IsRecord(UnwrapPtr(Field(t, i).type))}
    IN /\ {provider.initActions[j].idx : j \in 1..Len(provider.initActions)} = records
       /\ fresh # Panic
       /\ \A i \in 0..(NumField(t) - 1) :
            IF i \in records
              THEN fresh.f[i + 1] # Zero(Field(t, i).type) \/ Kind(Field(t, i).type) = "struct"
              ELSE fresh.f[i + 1] = Zero(Field(t, i).type)

\* the provider of the tagged record of the tests has no init action and
\* returns a record whose *time.Time is nil, and a row with a NULL
\* creation_time was appended with the pointer still nil
C22_Witness ==
  \E p \in Procs :
    /\ dst[p].sliceElem = "*tagStruct"
    /\ scanDef[p].mapper.kind = "multi"
    /\ scanDef[p].mapper.provider.initActions = <<>>
    /\ Provide(scanDef[p].mapper.provider) = Ref(StructValue(<<[k |-> "zero"], Nil>>))
    /\ Len(dstVal[p]) >= 1
    /\ dstVal[p][1].v.f[2] = Nil

\* the sequence s is the beginning of the sequence t
IsPrefix(s, t) == Len(s) <= Len(t) /\ SubSeq(t, 1, Len(s)) = s

\* C23: a caller never gets from the cache a plan whose column types
\* differ from those of its rows in number, in a name or in a scan type;
\* the step that compiles a plan puts it at the end of the list of the
\* element type, after the plans the list has; and no step replaces,
\* moves or removes a plan of a list or a provider of the provider cache.
C23_CachesOnlyGrow ==
  /\ [](\A p \in Procs :
          found[p] \in {"shared", "recheck"} =>
            SameNamesAndScanTypes(scanDef[p].columnTypes, rows[p].columnTypes))
  /\ [][\A p \in Procs :
          (found[p] # "created" /\ found'[p] = "created") =>
            /\ scanDef'[p].columnTypes = rows[p].columnTypes
            /\ ScanDefsOf(scanDefsByType', holderElementType[p])
                 = Append(ScanDefsOf(scanDefsByType, holderElementType[p]), scanDef'[p])]_vars
  /\ [][/\ \A t \in DOMAIN scanDefsByType :
             t \in DOMAIN scanDefsByType' /\ IsPrefix(scanDefsByType[t], scanDefsByType'[t])
        /\ \A t \in DOMAIN providersByType :
             t \in DOMAIN providersByType' /\ providersByType'[t] = providersByType[t]]_vars

\* the second query of a record type, with other column types, got a plan
\* of its own, the second of the list
C23_Witness ==
  \E p \in Procs :
    /\ found[p] = "created"
    /\ scanDef[p].mapper.kind = "multi"
    /\ Len(ScanDefsOf(scanDefsByType, holderElementType[p])) = 2
    /\ scanDefsByType[holderElementType[p]][2] = scanDef[p]
    /\ ~SameNamesAndScanTypes(scanDefsByType[holderElementType[p]][1].columnTypes,
                              rows[p].columnTypes)

\* the type of the values the mapper of the caller's plan hands to inject
AppendedType(p) ==
  IF scanDef[p].mapper.kind = "single" THEN scanDef[p].mapper.forType ELSE holderElementType[p]

\* C28: the values the mapper of a caller appends have the element type
\* of the caller's slice, and no append panics.
C28_AppendsWellTyped ==
  \A p \in Procs :
    scanDef[p].mapper.kind # None =>
      /\ AppendedType(p) = dst[p].sliceElem
      /\ pc[p] # "panicked"

\* C25: a caller holds the exclusive lock of the scan definitions only
\* inside getOrCreateSync, never while it scans rows or after it has
\* returned, and every caller that holds the lock releases it in the end,
\* so that no caller waits for the lock for ever.
C25_LocksReleased ==
  /\ [](\A p \in Procs :
          sdmWriter = p =>
            pc[p] \in {"locked", "resolverLoop", "strictColumnAmountCheck",
                       "strictColumnTypeCheck", "holderSuppliers"})
  /\ \A p \in Procs : (sdmWriter = p) ~> (sdmWriter # p)

RECURSIVE PresentCount(_)
PresentCount(s) ==
  IF s # <<>> /\ Head(s).k = "present" THEN 1 + PresentCount(Tail(s)) ELSE 0

\* C29: during a call the slice holds the elements it held before the
\* call, in their places, followed by what the mapper made of the rows
\* read, in row order; every step of the call leaves the elements of the
\* slice as they are and adds at most one, after them, when it reads a
\* row; and while no row has been read the slice is as it was before the
\* call, whatever error the call returns.
C29_OnlyAppends ==
  /\ [](\A p \in Procs :
          LET n == PresentCount(dstVal[p])
          IN /\ \A i \in 1..n : dstVal[p][i] = Present(i)
             /\ Len(dstVal[p]) - n <= rows[p].pos
             /\ Len(dstVal[p]) - n >= rows[p].pos - 1
             /\ \A i \in (n + 1)..Len(dstVal[p]) :
                  \E null \in BOOLEAN : dstVal[p][i] = ElementOfRow(p, i - n, null))
  /\ [][\A p \in Procs :
          pc[p] \notin {"idle", "returned"} =>
            /\ IsPrefix(dstVal[p], dstVal'[p])
            /\ Len(dstVal'[p]) <= Len(dstVal[p]) + 1
            /\ Len(dstVal'[p]) > Len(dstVal[p]) => rows'[p].pos = rows[p].pos + 1
            /\ rows'[p].pos = 0 => dstVal'[p] = dstVal[p]]_vars

\* two rows were appended after the two elements the slice held
C29_Witness ==
  \E p \in Procs :
    /\ pc[p] = "returned" /\ err[p] = None
    /\ scanDef[p].mapper.kind = "multi"
    /\ Len(dstVal[p]) = 4
    /\ dstVal[p][1] = Present(1) /\ dstVal[p][2] = Present(2)
    /\ dstVal[p][3] = ElementOfRow(p, 1, FALSE)
    /\ dstVal[p][4] = ElementOfRow(p, 2, FALSE)

\* the caller is in a Propagate for a record type that reaches itself
InCyclicCall(p) ==
  /\ InCall(p)
  /\ IsRecordElem(holderElementType[p])
  /\ RecursesForEver(UnwrapPtr(holderElementType[p]))

\* C26 as stated: a Propagate for a record type that reaches itself stays
\* in plan compilation for ever: it is never over, with an error or
\* without.
C26_NeverTerminates ==
  \A p \in Procs :
    InCyclicCall(p) =>
      /\ pc[p] \in {"getOrCreateSync", "Lock", "locked", "resolverRecursion"}
      /\ err[p] = None

\* C26 amended: a Propagate for a record type that reaches itself never
\* returns, with an error or with a plan: nothing is cached for the type,
\* no row is read, and the resolver calls itself, one level deeper with
\* every call, until the stack has reached its limit and the program is
\* ended; the program is ended in no other way.
C26_RecursionEndsInCrash ==
  /\ [](\A p \in Procs :
          InCyclicCall(p) =>
            /\ pc[p] \in {"getOrCreateSync", "Lock", "locked", "resolverRecursion", "crashed"}
            /\ err[p] = None
            /\ holderElementType[p] \notin DOMAIN scanDefsByType
            /\ holderElementType[p] \notin DOMAIN providersByType
            /\ rows[p].pos = 0 /\ dstVal[p] = <<>>)
  /\ [][\A p \in Procs :
          /\ pc[p] = "resolverRecursion" =>
               /\ pc'[p] \in {"resolverRecursion", "crashed"}
               /\ sdmWriter' = p
               /\ IsPrefix(folding[p], folding'[p])
               /\ Len(folding'[p]) <= Len(folding[p]) + 1
          /\ (pc[p] # "crashed" /\ pc'[p] = "crashed") =>
               \E q \in Procs : pc[q] = "resolverRecursion" /\ Len(folding[q]) = MaxStack]_vars

\* the resolution of the type that points to itself has filled the stack
\* with calls for the field Next and the program was ended
C26_Witness ==
  \E p \in Procs :
    /\ pc[p] = "crashed"
    /\ holderElementType[p] \in {"node", "*node"}
    /\ Len(folding[p]) = MaxStack
    /\ \A i \in 1..Len(folding[p]) : folding[p][i] = 1
    /\ err[p] = None

\* C24: in package main a caller that finds the entry with its second
\* lookup, under the exclusive lock, releases the lock before it runs the
\* mapper: no caller that runs a mapper, has returned or has panicked in a
\* mapper holds holderElementTypesMtx.
C24_RecheckHitUnlocks ==
  \A p \in Procs :
    pc[p] \in {"main:mapper", "returned", "panicked", "idle"} => holderElementTypesMtx # p

\* C30: the mapper src/propagate.go runs for a record type binds the
\* columns of the rows it is run on: its holder suppliers are those that
\* getHolderSuppliers makes for the column types of the caller's rows.
C30_MapperOfOwnSignature ==
  \A p \in Procs :
    (pc[p] = "main:mapper" /\ scanDef[p].mapper.kind = "multi") =>
      scanDef[p].mapper.holderSuppliers =
        createHolderSuppliers(createFieldsAccessors(holderElementType[p]),
                              rows[p].columnTypes, FALSE, FALSE).holderSuppliers

====
